---------------------------- MODULE Spec2Model ----------------------------
(***************************************************************************)
(* Packet capture tooling of the Erupe server: the recording tap           *)
(* (RecordingConn), the trace stream it appends to, and the comparator     *)
(* (ComparePackets).                                                       *)
(*                                                                         *)
(* Two goroutines drive one RecordingConn: "recv" loops over ReadPacket,   *)
(* "send" loops over SendPacket.  The inner connection is an external      *)
(* collaborator: what it returns is drawn from small sets.                 *)
(***************************************************************************)
EXTENDS Integers, Sequences, FiniteSets, TLC

VARIABLES
    pc,         \* position of each goroutine inside ReadPacket / SendPacket
    mu,         \* RecordingConn.mu: "free" or the goroutine holding it
    cur,        \* locals of the call in progress: data, rec, the discarded WritePacket result
    now,        \* the wall clock read by time.Now().UnixNano()
    buf,        \* bytes appended to the Writer and not yet flushed
    file,       \* bytes that reached the sink
    started,    \* number of calls each goroutine has begun
    innerLog,   \* per goroutine, what the inner connection returned, call by call
    retLog,     \* per goroutine, what the RecordingConn returned, call by call
    calls,      \* the records handed to Writer.WritePacket, in invocation order
    lockOrder,  \* the records of the goroutines in the order they acquired mu
    wfails,     \* number of WritePacket calls that returned an error
    expected,   \* ComparePackets: the expected sequence
    actual,     \* ComparePackets: the actual sequence
    diffs,      \* ComparePackets: the result
    cmpDone,    \* ComparePackets has run
    capIn,      \* createTestCapture: the header, metadata and records written
    disk,       \* the capture file on disk
    args,       \* the command line of the replay tool
    phase,      \* "off", "new" (nothing written), "written", "exited"
    result,     \* what the run of the tool produced: exit code, streams, decoded trace
    done,       \* wizardServer.done: "open" or "closed"
    finish,     \* per handleFinish request: position, what succeeded, response
    initdb      \* the handleInitDB request: position, steps run, response

cliVars == <<capIn, disk, args, phase, result>>

wizVars == <<done, finish, initdb>>

tapCmpVars == <<pc, mu, cur, now, buf, file, started, innerLog, retLog, calls, lockOrder,
                wfails, expected, actual, diffs, cmpDone>>

vars == <<pc, mu, cur, now, buf, file, started, innerLog, retLog, calls, lockOrder, wfails,
          expected, actual, diffs, cmpDone, capIn, disk, args, phase, result,
          done, finish, initdb>>

---------------------------------------------------------------------------
(* Bounds of the model. *)

MaxReads == 2        \* ReadPacket calls made by the receive goroutine
MaxSends == 2        \* SendPacket calls made by the send goroutine
MaxInnerErrs == 1    \* failures of the inner connection per goroutine
MaxWriteFails == 1   \* failures of Writer.WritePacket in a run
MaxCmpLen == 2       \* length of each sequence given to ComparePackets
MaxTraceLen == 3     \* records written to a capture file
MaxFinish == 3       \* handleFinish requests in flight
MaxDirEntries == 2   \* entries of a schema directory

---------------------------------------------------------------------------
(* Values. *)

DirClientToServer == 0
DirServerToClient == 1

Procs == {"recv", "send"}

Other(p) == IF p = "recv" THEN "send" ELSE "recv"

DirOf(p) == IF p = "recv" THEN DirClientToServer ELSE DirServerToClient

\* Raw packets seen on the wire: 0, 1 and more than 2 bytes.
Packets == { <<>>, <<5>>, <<0, 19, 170>> }

NoErr == "nil"

\* Errors of the inner connection.
InnerErrs == {"EOF", "ErrClosed"}

\* Error of the Writer's sink.
WriteErr == "ErrShortWrite"

NoRec == [TimestampNs |-> 0, Direction |-> 0, Opcode |-> 0, Payload |-> <<>>]

NoCur == [data |-> <<>>, rec |-> NoRec, werr |-> NoErr]

SeqsUpTo(S, n) == UNION { [1..k -> S] : k \in 0..n }

---------------------------------------------------------------------------
(* The trace stream: one record is a 15-byte big-endian header            *)
(* (timestamp 8, direction 1, opcode 2, payload length 4) and the payload. *)

RECURSIVE BE(_, _)
BE(n, w) == IF w = 0 THEN <<>> ELSE Append(BE(n \div 256, w - 1), n % 256)

RECURSIVE FromBE(_)
FromBE(s) == IF s = <<>> THEN 0 ELSE FromBE(SubSeq(s, 1, Len(s) - 1)) * 256 + s[Len(s)]

RecHeaderLen == 15

EncodeHeader(rec) ==
    BE(rec.TimestampNs, 8) \o <<rec.Direction>> \o BE(rec.Opcode, 2) \o BE(Len(rec.Payload), 4)

\* Reader.ReadPacket on the bytes left: the record and the rest, io.EOF at the
\* ordinary end of input, an error on a truncated record.
ReaderReadPacket(bytes) ==
    IF bytes = <<>> THEN [err |-> "EOF", rec |-> NoRec, rest |-> <<>>]
    ELSE IF Len(bytes) < RecHeaderLen
        THEN [err |-> "ErrUnexpectedEOF", rec |-> NoRec, rest |-> <<>>]
    ELSE LET n == FromBE(SubSeq(bytes, 12, 15))
         IN  IF Len(bytes) < RecHeaderLen + n
                THEN [err |-> "ErrUnexpectedEOF", rec |-> NoRec, rest |-> <<>>]
                ELSE [err |-> NoErr,
                      rec |-> [TimestampNs |-> FromBE(SubSeq(bytes, 1, 8)),
                               Direction |-> bytes[9],
                               Opcode |-> FromBE(SubSeq(bytes, 10, 11)),
                               Payload |-> SubSeq(bytes, RecHeaderLen + 1, RecHeaderLen + n)],
                      rest |-> SubSeq(bytes, RecHeaderLen + n + 1, Len(bytes))]

\* readAllPackets ending its loop on any error, as on io.EOF.
RECURSIVE readAllPacketsAnyErrorEnds(_)
readAllPacketsAnyErrorEnds(bytes) ==
    LET r == ReaderReadPacket(bytes)
    IN  IF r.err # NoErr THEN [records |-> <<>>, err |-> NoErr]
        ELSE LET t == readAllPacketsAnyErrorEnds(r.rest)
             IN  [records |-> <<r.rec>> \o t.records, err |-> t.err]

\* readAllPackets: every record up to io.EOF (err nil), or the records read
\* before the first other error and that error.
RECURSIVE readAllPackets(_)
readAllPackets(bytes) ==
    LET r == ReaderReadPacket(bytes)
    IN  IF r.err = "EOF" THEN [records |-> <<>>, err |-> NoErr]
        ELSE IF r.err # NoErr THEN [records |-> <<>>, err |-> r.err]
        ELSE LET t == readAllPackets(r.rest)
             IN  [records |-> <<r.rec>> \o t.records, err |-> t.err]

---------------------------------------------------------------------------
(* RecordingConn. *)

\* RecordOpcode reading the two bytes little-endian.
RecordOpcodeLittleEndian(data) == IF Len(data) >= 2 THEN data[2] * 256 + data[1] ELSE 0

\* record: the opcode is the big-endian value of the first two bytes, 0 for
\* a packet shorter than two bytes.
RecordOpcode(data) == IF Len(data) >= 2 THEN data[1] * 256 + data[2] ELSE 0

ErrCount(log) == Cardinality({i \in 1..Len(log) : log[i].err # NoErr})

OkCount(log) == Cardinality({i \in 1..Len(log) : log[i].err = NoErr})

\* CallReadPacket taking the mutex before the inner connection is called.
CallReadPacketLocked ==
    /\ pc["recv"] = "idle"
    /\ started["recv"] < MaxReads
    /\ mu = "free"
    /\ mu' = "recv"
    /\ pc' = [pc EXCEPT !["recv"] = "inner"]
    /\ started' = [started EXCEPT !["recv"] = @ + 1]
    /\ cur' = [cur EXCEPT !["recv"] = NoCur]
    /\ UNCHANGED <<now, buf, file, innerLog, retLog, calls, lockOrder, wfails,
                   expected, actual, diffs, cmpDone, cliVars, wizVars>>

\* ReadPacket is entered: rc.inner.ReadPacket() is called and may block.
CallReadPacket ==
    /\ pc["recv"] = "idle"
    /\ started["recv"] < MaxReads
    /\ pc' = [pc EXCEPT !["recv"] = "inner"]
    /\ started' = [started EXCEPT !["recv"] = @ + 1]
    /\ cur' = [cur EXCEPT !["recv"] = NoCur]
    /\ UNCHANGED <<mu, now, buf, file, innerLog, retLog, calls, lockOrder, wfails,
                   expected, actual, diffs, cmpDone, cliVars, wizVars>>

\* InnerReadFail with the early return forgotten: the failed read is recorded.
InnerReadFailRecords ==
    /\ pc["recv"] = "inner"
    /\ ErrCount(innerLog["recv"]) < MaxInnerErrs
    /\ \E e \in InnerErrs :
         innerLog' = [innerLog EXCEPT !["recv"] = Append(@, [data |-> <<>>, err |-> e])]
    /\ pc' = [pc EXCEPT !["recv"] = "record"]
    /\ UNCHANGED <<mu, cur, now, buf, file, started, retLog, calls, lockOrder, wfails,
                   expected, actual, diffs, cmpDone, cliVars, wizVars>>

\* The inner ReadPacket returns an error: ReadPacket returns (data, err).
InnerReadFail ==
    /\ pc["recv"] = "inner"
    /\ ErrCount(innerLog["recv"]) < MaxInnerErrs
    /\ \E e \in InnerErrs :
         /\ innerLog' = [innerLog EXCEPT !["recv"] = Append(@, [data |-> <<>>, err |-> e])]
         /\ retLog' = [retLog EXCEPT !["recv"] = Append(@, [data |-> <<>>, err |-> e])]
    /\ pc' = [pc EXCEPT !["recv"] = "idle"]
    /\ UNCHANGED <<mu, cur, now, buf, file, started, calls, lockOrder, wfails,
                   expected, actual, diffs, cmpDone, cliVars, wizVars>>

\* The inner ReadPacket returns a packet: ReadPacket goes on to record it.
InnerReadOk ==
    /\ pc["recv"] = "inner"
    /\ \E d \in Packets :
         /\ innerLog' = [innerLog EXCEPT !["recv"] = Append(@, [data |-> d, err |-> NoErr])]
         /\ cur' = [cur EXCEPT !["recv"].data = d]
    /\ pc' = [pc EXCEPT !["recv"] = "record"]
    /\ UNCHANGED <<mu, now, buf, file, started, retLog, calls, lockOrder, wfails,
                   expected, actual, diffs, cmpDone, cliVars, wizVars>>

\* SendPacket(data) is entered: rc.inner.SendPacket(data) is called first.
CallSendPacket ==
    /\ pc["send"] = "idle"
    /\ started["send"] < MaxSends
    /\ \E d \in Packets : cur' = [cur EXCEPT !["send"] = [NoCur EXCEPT !.data = d]]
    /\ pc' = [pc EXCEPT !["send"] = "inner"]
    /\ started' = [started EXCEPT !["send"] = @ + 1]
    /\ UNCHANGED <<mu, now, buf, file, innerLog, retLog, calls, lockOrder, wfails,
                   expected, actual, diffs, cmpDone, cliVars, wizVars>>

\* InnerSendFail with the early return forgotten: the failed send is recorded.
InnerSendFailRecords ==
    /\ pc["send"] = "inner"
    /\ ErrCount(innerLog["send"]) < MaxInnerErrs
    /\ \E e \in InnerErrs :
         innerLog' = [innerLog EXCEPT !["send"] = Append(@, [data |-> cur["send"].data, err |-> e])]
    /\ pc' = [pc EXCEPT !["send"] = "record"]
    /\ UNCHANGED <<mu, cur, now, buf, file, started, retLog, calls, lockOrder, wfails,
                   expected, actual, diffs, cmpDone, cliVars, wizVars>>

\* InnerSendFail returning nil instead of the inner connection's error.
InnerSendFailSwallowed ==
    /\ pc["send"] = "inner"
    /\ ErrCount(innerLog["send"]) < MaxInnerErrs
    /\ \E e \in InnerErrs :
         /\ innerLog' = [innerLog EXCEPT !["send"] = Append(@, [data |-> cur["send"].data, err |-> e])]
         /\ retLog' = [retLog EXCEPT !["send"] = Append(@, [data |-> cur["send"].data, err |-> NoErr])]
    /\ pc' = [pc EXCEPT !["send"] = "idle"]
    /\ UNCHANGED <<mu, cur, now, buf, file, started, calls, lockOrder, wfails,
                   expected, actual, diffs, cmpDone, cliVars, wizVars>>

\* The inner SendPacket returns an error: SendPacket returns it.
InnerSendFail ==
    /\ pc["send"] = "inner"
    /\ ErrCount(innerLog["send"]) < MaxInnerErrs
    /\ \E e \in InnerErrs :
         /\ innerLog' = [innerLog EXCEPT !["send"] = Append(@, [data |-> cur["send"].data, err |-> e])]
         /\ retLog' = [retLog EXCEPT !["send"] = Append(@, [data |-> cur["send"].data, err |-> e])]
    /\ pc' = [pc EXCEPT !["send"] = "idle"]
    /\ UNCHANGED <<mu, cur, now, buf, file, started, calls, lockOrder, wfails,
                   expected, actual, diffs, cmpDone, cliVars, wizVars>>

\* InnerSendOk returning at once, the packet never recorded.
InnerSendOkNoRecord ==
    /\ pc["send"] = "inner"
    /\ innerLog' = [innerLog EXCEPT !["send"] = Append(@, [data |-> cur["send"].data, err |-> NoErr])]
    /\ retLog' = [retLog EXCEPT !["send"] = Append(@, [data |-> cur["send"].data, err |-> NoErr])]
    /\ pc' = [pc EXCEPT !["send"] = "idle"]
    /\ UNCHANGED <<mu, cur, now, buf, file, started, calls, lockOrder, wfails,
                   expected, actual, diffs, cmpDone, cliVars, wizVars>>

\* The inner SendPacket returns nil: SendPacket goes on to record the packet.
InnerSendOk ==
    /\ pc["send"] = "inner"
    /\ innerLog' = [innerLog EXCEPT !["send"] = Append(@, [data |-> cur["send"].data, err |-> NoErr])]
    /\ pc' = [pc EXCEPT !["send"] = "record"]
    /\ UNCHANGED <<mu, cur, now, buf, file, started, retLog, calls, lockOrder, wfails,
                   expected, actual, diffs, cmpDone, cliVars, wizVars>>

\* record, up to the lock: the opcode is derived and the clock is read.
\* Every reading of the clock is later than the one before it.
BuildRecord(p) ==
    /\ pc[p] = "record"
    /\ now' = now + 1
    /\ cur' = [cur EXCEPT ![p].rec = [TimestampNs |-> now + 1,
                                      Direction |-> DirOf(p),
                                      Opcode |-> RecordOpcode(cur[p].data),
                                      Payload |-> cur[p].data]]
    /\ pc' = [pc EXCEPT ![p] = "lock"]
    /\ UNCHANGED <<mu, buf, file, started, innerLog, retLog, calls, lockOrder, wfails,
                   expected, actual, diffs, cmpDone, cliVars, wizVars>>

\* Lock that does not wait for the mutex.
LockNoWait(p) ==
    /\ pc[p] = "lock"
    /\ mu' = p
    /\ lockOrder' = Append(lockOrder, cur[p].rec)
    /\ pc' = [pc EXCEPT ![p] = "whdr"]
    /\ UNCHANGED <<cur, now, buf, file, started, innerLog, retLog, calls, wfails,
                   expected, actual, diffs, cmpDone, cliVars, wizVars>>

\* rc.mu.Lock(): blocks until the mutex is free.
Lock(p) ==
    /\ pc[p] = "lock"
    /\ mu = "free"
    /\ mu' = p
    /\ lockOrder' = Append(lockOrder, cur[p].rec)
    /\ pc' = [pc EXCEPT ![p] = "whdr"]
    /\ UNCHANGED <<cur, now, buf, file, started, innerLog, retLog, calls, wfails,
                   expected, actual, diffs, cmpDone, cliVars, wizVars>>

\* WriteHeader putting the record in front of those written before.
WriteHeaderInFront(p) ==
    /\ pc[p] = "whdr"
    /\ calls' = <<cur[p].rec>> \o calls
    /\ buf' = EncodeHeader(cur[p].rec) \o cur[p].rec.Payload \o buf
    /\ pc' = [pc EXCEPT ![p] = "unlock"]
    /\ UNCHANGED <<cur, wfails, mu, now, file, started, innerLog, retLog, lockOrder,
                   expected, actual, diffs, cmpDone, cliVars, wizVars>>

\* Writer.WritePacket, first write: the record header, or an error of the sink.
WriteHeader(p) ==
    /\ pc[p] = "whdr"
    /\ calls' = Append(calls, cur[p].rec)
    /\ \/ /\ buf' = buf \o EncodeHeader(cur[p].rec)
          /\ pc' = [pc EXCEPT ![p] = "wpay"]
          /\ UNCHANGED <<cur, wfails,
                   expected, actual, diffs, cmpDone, cliVars, wizVars>>
       \/ /\ wfails < MaxWriteFails
          /\ wfails' = wfails + 1
          /\ cur' = [cur EXCEPT ![p].werr = WriteErr]
          /\ pc' = [pc EXCEPT ![p] = "unlock"]
          /\ UNCHANGED buf
    /\ UNCHANGED <<mu, now, file, started, innerLog, retLog, lockOrder,
                   expected, actual, diffs, cmpDone, cliVars, wizVars>>

\* Writer.WritePacket, second write: the payload, or an error of the sink.
WritePayload(p) ==
    /\ pc[p] = "wpay"
    /\ \/ /\ buf' = buf \o cur[p].rec.Payload
          /\ UNCHANGED <<cur, wfails,
                   expected, actual, diffs, cmpDone, cliVars, wizVars>>
       \/ /\ wfails < MaxWriteFails
          /\ wfails' = wfails + 1
          /\ cur' = [cur EXCEPT ![p].werr = WriteErr]
          /\ UNCHANGED buf
    /\ pc' = [pc EXCEPT ![p] = "unlock"]
    /\ UNCHANGED <<mu, now, file, started, innerLog, retLog, calls, lockOrder,
                   expected, actual, diffs, cmpDone, cliVars, wizVars>>

\* Unlock returning the result of WritePacket instead of discarding it.
UnlockSurfacesError(p) ==
    /\ pc[p] = "unlock"
    /\ mu' = "free"
    /\ retLog' = [retLog EXCEPT ![p] = Append(@, [data |-> cur[p].data, err |-> cur[p].werr])]
    /\ pc' = [pc EXCEPT ![p] = "idle"]
    /\ UNCHANGED <<cur, now, buf, file, started, innerLog, calls, lockOrder, wfails,
                   expected, actual, diffs, cmpDone, cliVars, wizVars>>

\* rc.mu.Unlock(), and the return of ReadPacket / SendPacket: the result of
\* WritePacket was discarded (_ =), the caller gets (data, nil) / nil.
Unlock(p) ==
    /\ pc[p] = "unlock"
    /\ mu' = "free"
    /\ retLog' = [retLog EXCEPT ![p] = Append(@, [data |-> cur[p].data, err |-> NoErr])]
    /\ pc' = [pc EXCEPT ![p] = "idle"]
    /\ UNCHANGED <<cur, now, buf, file, started, innerLog, calls, lockOrder, wfails,
                   expected, actual, diffs, cmpDone, cliVars, wizVars>>

\* Writer.Flush, called by the owner once both goroutines have finished
\* (wg.Wait(); w.Flush()).
Flush ==
    /\ \A p \in Procs : pc[p] = "idle"
    /\ started["recv"] = MaxReads /\ started["send"] = MaxSends
    /\ buf # <<>>
    /\ file' = file \o buf
    /\ buf' = <<>>
    /\ UNCHANGED <<pc, mu, cur, now, started, innerLog, retLog, calls, lockOrder, wfails,
                   expected, actual, diffs, cmpDone, cliVars, wizVars>>

RecvRecord == BuildRecord("recv") \/ Lock("recv") \/ WriteHeader("recv")
                  \/ WritePayload("recv") \/ Unlock("recv")

SendRecord == BuildRecord("send") \/ Lock("send") \/ WriteHeader("send")
                  \/ WritePayload("send") \/ Unlock("send")

---------------------------------------------------------------------------
(* The setup wizard: handleFinish and the done channel.  Every request is *)
(* served by a goroutine of its own (net/http).                            *)

Requests == 1..MaxFinish

\* A request that has not arrived: nothing decoded, nothing written, no
\* response (status 0), close(ws.done) not executed.
NoFinish ==
    [pc |-> "idle", decoded |-> FALSE, wrote |-> FALSE, status |-> 0, closed |-> FALSE]

InitDBSteps == <<"create", "init", "update", "patch", "bundled">>

NoInitDBRequest ==
    [CreateDB |-> FALSE, ApplyInit |-> FALSE, ApplyUpdate |-> FALSE, ApplyPatch |-> FALSE,
     ApplyBundled |-> FALSE]

NoApplied == [dir |-> "", listing |-> <<>>, fail |-> "", applied |-> <<>>, executed |-> <<>>, err |-> FALSE]

\* handleInitDB not called: no step run, no response (status 0).
NoInitDB ==
    [pc |-> "idle", req |-> NoInitDBRequest, ran |-> <<>>, failed |-> <<>>,
     connected |-> FALSE, last |-> NoApplied, status |-> 0, success |-> "none"]

WizOff ==
    /\ done = "open"
    /\ finish = [r \in Requests |-> NoFinish]
    /\ initdb = NoInitDB

\* The recording tap and the comparator at rest.
TapCmpOff ==
    /\ pc = [p \in Procs |-> "idle"]
    /\ mu = "free"
    /\ cur = [p \in Procs |-> NoCur]
    /\ now = 1
    /\ buf = <<>>
    /\ file = <<>>
    /\ started = [p \in Procs |-> 0]
    /\ innerLog = [p \in Procs |-> <<>>]
    /\ retLog = [p \in Procs |-> <<>>]
    /\ calls = <<>>
    /\ lockOrder = <<>>
    /\ wfails = 0
    /\ expected = <<>>
    /\ actual = <<>>
    /\ diffs = <<>>
    /\ cmpDone = FALSE

---------------------------------------------------------------------------
(* The capture file: a 12-byte header (version 2, server role 1, client   *)
(* protocol id 1, session start 8), the metadata (host and remote address *)
(* as length-prefixed strings, port 2, char id 4, user id 4), the records. *)

FormatVersion == 1

ServerTypeChannel == 3

FileHeaderLen == 12

NoHeader == [Version |-> 0, ServerType |-> 0, ClientMode |-> 0, SessionStartNs |-> 0]

NoMeta == [Host |-> <<>>, Port |-> 0, RemoteAddr |-> <<>>, CharID |-> 0, UserID |-> 0]

\* Headers written by the tests, with a supported and an unsupported version.
Headers ==
    {[Version |-> v, ServerType |-> ServerTypeChannel, ClientMode |-> 40,
      SessionStartNs |-> 1000] : v \in {FormatVersion, FormatVersion + 1}}

\* SessionMetadata{} and one with every field set.
Metas ==
    {NoMeta,
     [Host |-> <<49, 50, 55>>, Port |-> 54001, RemoteAddr |-> <<49>>,
      CharID |-> 7, UserID |-> 9]}

\* Records of a trace: both directions, payloads of 0, 2 and 3 bytes, two
\* timestamps after the session start.
TraceRecords ==
    {[TimestampNs |-> t, Direction |-> dp[1], Opcode |-> RecordOpcode(dp[2]),
      Payload |-> dp[2]] :
        t \in {1100, 1300},
        dp \in {<<DirClientToServer, <<0, 19, 170>> >>, <<DirServerToClient, <<0, 18>> >>,
                <<DirClientToServer, <<>> >>, <<DirServerToClient, <<0, 19, 170>> >>}}

EncodeFileHeader(h) ==
    BE(h.Version, 2) \o <<h.ServerType>> \o <<h.ClientMode>> \o BE(h.SessionStartNs, 8)

EncodeString(str) == BE(Len(str), 2) \o str

EncodeMeta(m) ==
    EncodeString(m.Host) \o BE(m.Port, 2) \o EncodeString(m.RemoteAddr)
        \o BE(m.CharID, 4) \o BE(m.UserID, 4)

RECURSIVE EncodeRecords(_)
EncodeRecords(recs) ==
    IF recs = <<>> THEN <<>>
    ELSE EncodeHeader(Head(recs)) \o Head(recs).Payload \o EncodeRecords(Tail(recs))

\* NewWriter, WritePacket for every record, Flush: the bytes that reach the sink.
WriterOutput(h, m, recs) == EncodeFileHeader(h) \o EncodeMeta(m) \o EncodeRecords(recs)

DecodeString(bytes) ==
    IF Len(bytes) < 2 THEN [ok |-> FALSE, str |-> <<>>, rest |-> <<>>]
    ELSE LET n == FromBE(SubSeq(bytes, 1, 2))
         IN  IF Len(bytes) < 2 + n THEN [ok |-> FALSE, str |-> <<>>, rest |-> <<>>]
             ELSE [ok |-> TRUE, str |-> SubSeq(bytes, 3, 2 + n),
                   rest |-> SubSeq(bytes, 3 + n, Len(bytes))]

DecodeMeta(bytes) ==
    LET bad == [ok |-> FALSE, meta |-> NoMeta, rest |-> <<>>]
        host == DecodeString(bytes)
    IN  IF ~host.ok \/ Len(host.rest) < 2 THEN bad
        ELSE LET remote == DecodeString(SubSeq(host.rest, 3, Len(host.rest)))
             IN  IF ~remote.ok \/ Len(remote.rest) < 8 THEN bad
                 ELSE [ok |-> TRUE,
                       meta |-> [Host |-> host.str,
                                 Port |-> FromBE(SubSeq(host.rest, 1, 2)),
                                 RemoteAddr |-> remote.str,
                                 CharID |-> FromBE(SubSeq(remote.rest, 1, 4)),
                                 UserID |-> FromBE(SubSeq(remote.rest, 5, 8))],
                       rest |-> SubSeq(remote.rest, 9, Len(remote.rest))]

NoReader == [err |-> NoErr, Header |-> NoHeader, Meta |-> NoMeta, rest |-> <<>>]

\* NewReader: parses and validates the header and the metadata; a format
\* error for an unsupported version or a malformed structure.
NewReader(bytes) ==
    IF Len(bytes) < FileHeaderLen THEN [NoReader EXCEPT !.err = "ErrMalformedHeader"]
    ELSE IF FromBE(SubSeq(bytes, 1, 2)) > FormatVersion
        THEN [NoReader EXCEPT !.err = "ErrUnsupportedVersion"]
    ELSE LET m == DecodeMeta(SubSeq(bytes, FileHeaderLen + 1, Len(bytes)))
         IN  IF ~m.ok THEN [NoReader EXCEPT !.err = "ErrMalformedHeader"]
             ELSE [err |-> NoErr,
                   Header |-> [Version |-> FromBE(SubSeq(bytes, 1, 2)),
                               ServerType |-> bytes[3],
                               ClientMode |-> bytes[4],
                               SessionStartNs |-> FromBE(SubSeq(bytes, 5, 12))],
                   Meta |-> m.meta,
                   rest |-> m.rest]

\* Errors that say "not a valid capture", as opposed to errors of the storage.
FormatErrors == {"ErrMalformedHeader", "ErrUnsupportedVersion", "ErrUnexpectedEOF"}

IOErrors == {"ErrNotExist"}

---------------------------------------------------------------------------
(* The replay tool: main, openCapture, runDump, runJSON, runStats. *)

CapturePath == "test.mhfr"

AbsentPath == "absent.mhfr"

Modes == {"dump", "json", "stats", "replay", "bogus"}

NoCapIn == [hdr |-> NoHeader, meta |-> NoMeta, recs |-> <<>>]

NoDisk == [exists |-> FALSE, bytes |-> <<>>, truncated |-> FALSE]

NoArgs == [capture |-> "", mode |-> "dump", target |-> "", parse |-> "ok"]

NoTotals == [totalC2S |-> 0, bytesC2S |-> 0, totalS2C |-> 0, bytesS2C |-> 0]

\* Nothing emitted, nothing decoded, the process still running (exit -1).
NoResult ==
    [exit |-> -1, stderr |-> <<>>, err |-> <<>>,
     readerNil |-> TRUE, header |-> NoHeader, meta |-> NoMeta, records |-> <<>>,
     dumpHeader |-> FALSE, dumpLines |-> <<>>, dumpTotal |-> -1,
     jsonDoc |-> FALSE, jsonPackets |-> <<>>,
     statsEmpty |-> FALSE, statsSummary |-> FALSE, statsRows |-> <<>>,
     statsTotals |-> NoTotals, statsPackets |-> 0, duration |-> 0, indexed |-> FALSE]

CliOff ==
    /\ capIn = NoCapIn
    /\ disk = NoDisk
    /\ args = NoArgs
    /\ phase = "off"
    /\ result = NoResult

\* openCapture handing out the reader although NewReader failed.
openCaptureKeepsReader(d, path) ==
    IF ~(d.exists /\ path = CapturePath)
        THEN [err |-> <<"open capture", "ErrNotExist">>, nil |-> TRUE, r |-> NoReader]
    ELSE LET r == NewReader(d.bytes)
         IN  [err |-> <<>>, nil |-> FALSE, r |-> r]

\* openCapture: os.Open, then pcap.NewReader; nil reader and file on error.
openCapture(d, path) ==
    IF ~(d.exists /\ path = CapturePath)
        THEN [err |-> <<"open capture", "ErrNotExist">>, nil |-> TRUE, r |-> NoReader]
    ELSE LET r == NewReader(d.bytes)
         IN  IF r.err # NoErr
                THEN [err |-> <<"read capture", r.err>>, nil |-> TRUE, r |-> NoReader]
                ELSE [err |-> <<>>, nil |-> FALSE, r |-> r]

\* The result of a run whose capture was opened: header and metadata known.
Opened(oc) ==
    [NoResult EXCEPT !.readerNil = FALSE, !.header = oc.r.Header, !.meta = oc.r.Meta]

\* rec.Direction.String()
DirectionString(d) ==
    IF d = DirClientToServer THEN "C->S" ELSE IF d = DirServerToClient THEN "S->C" ELSE "?"

\* runDump printing the lines of the records read before a decode error.
runDumpStreams(d, path) ==
    LET oc == openCapture(d, path)
    IN  IF oc.err # <<>> THEN [NoResult EXCEPT !.err = oc.err]
        ELSE LET all == readAllPackets(oc.r.rest)
                 base == [Opened(oc) EXCEPT
                            !.dumpHeader = TRUE,
                            !.records = all.records,
                            !.dumpLines =
                               [i \in 1..Len(all.records) |->
                                  [index |-> i - 1,
                                   elapsed |-> all.records[i].TimestampNs
                                                  - oc.r.Header.SessionStartNs,
                                   direction |-> DirectionString(all.records[i].Direction),
                                   opcode |-> all.records[i].Opcode,
                                   bytes |-> Len(all.records[i].Payload)]]]
             IN  IF all.err # NoErr THEN [base EXCEPT !.err = <<all.err>>]
                 ELSE [base EXCEPT !.dumpTotal = Len(all.records)]

\* runDump: the header lines, then one line per record and the total; the
\* header lines are out before the records are read.
runDump(d, path) ==
    LET oc == openCapture(d, path)
    IN  IF oc.err # <<>> THEN [NoResult EXCEPT !.err = oc.err]
        ELSE LET all == readAllPackets(oc.r.rest)
                 base == [Opened(oc) EXCEPT !.dumpHeader = TRUE, !.records = all.records]
             IN  IF all.err # NoErr THEN [base EXCEPT !.err = <<all.err>>]
                 ELSE [base EXCEPT
                         !.dumpLines =
                             [i \in 1..Len(all.records) |->
                                [index |-> i - 1,
                                 elapsed |-> all.records[i].TimestampNs
                                                - oc.r.Header.SessionStartNs,
                                 direction |-> DirectionString(all.records[i].Direction),
                                 opcode |-> all.records[i].Opcode,
                                 bytes |-> Len(all.records[i].Payload)]],
                         !.dumpTotal = Len(all.records)]

\* runJSON giving the absolute timestamp as elapsed_ns.
runJSONAbsoluteElapsed(d, path) ==
    LET oc == openCapture(d, path)
    IN  IF oc.err # <<>> THEN [NoResult EXCEPT !.err = oc.err]
        ELSE LET all == readAllPackets(oc.r.rest)
                 base == [Opened(oc) EXCEPT !.records = all.records]
             IN  IF all.err # NoErr THEN [base EXCEPT !.err = <<all.err>>]
                 ELSE [base EXCEPT
                         !.jsonDoc = TRUE,
                         !.jsonPackets =
                             [i \in 1..Len(all.records) |->
                                [index |-> i - 1,
                                 timestamp |-> all.records[i].TimestampNs,
                                 elapsed_ns |-> all.records[i].TimestampNs,
                                 direction |-> DirectionString(all.records[i].Direction),
                                 opcode |-> all.records[i].Opcode,
                                 payload_len |-> Len(all.records[i].Payload)]]]

\* runJSON: one document with the header, the metadata and all records.
runJSON(d, path) ==
    LET oc == openCapture(d, path)
    IN  IF oc.err # <<>> THEN [NoResult EXCEPT !.err = oc.err]
        ELSE LET all == readAllPackets(oc.r.rest)
                 base == [Opened(oc) EXCEPT !.records = all.records]
             IN  IF all.err # NoErr THEN [base EXCEPT !.err = <<all.err>>]
                 ELSE [base EXCEPT
                         !.jsonDoc = TRUE,
                         !.jsonPackets =
                             [i \in 1..Len(all.records) |->
                                [index |-> i - 1,
                                 timestamp |-> all.records[i].TimestampNs,
                                 elapsed_ns |-> all.records[i].TimestampNs
                                                   - oc.r.Header.SessionStartNs,
                                 direction |-> DirectionString(all.records[i].Direction),
                                 opcode |-> all.records[i].Opcode,
                                 payload_len |-> Len(all.records[i].Payload)]]]

RECURSIVE SumBytes(_)
SumBytes(recs) == IF recs = <<>> THEN 0 ELSE Len(Head(recs).Payload) + SumBytes(Tail(recs))

\* statsMap: one opcodeStats per opcode seen.
StatsMap(recs) ==
    {[opcode |-> op,
      count |-> Len(SelectSeq(recs, LAMBDA r : r.Opcode = op)),
      bytes |-> SumBytes(SelectSeq(recs, LAMBDA r : r.Opcode = op))] :
        op \in {recs[i].Opcode : i \in 1..Len(recs)}}

\* StatsTotals counting a server-to-client record in both directions.
StatsTotalsCountsTwice(recs) ==
    LET s2c == SelectSeq(recs, LAMBDA r : r.Direction = DirServerToClient)
    IN  [totalC2S |-> Len(recs), bytesC2S |-> SumBytes(recs),
         totalS2C |-> Len(s2c), bytesS2C |-> SumBytes(s2c)]

\* The per-direction totals of the loop over the records.
StatsTotals(recs) ==
    LET c2s == SelectSeq(recs, LAMBDA r : r.Direction = DirClientToServer)
        s2c == SelectSeq(recs, LAMBDA r : r.Direction = DirServerToClient)
    IN  [totalC2S |-> Len(c2s), bytesC2S |-> SumBytes(c2s),
         totalS2C |-> Len(s2c), bytesS2C |-> SumBytes(s2c)]

\* SortOutcomes ordering the rows by ascending count.
SortOutcomesAscending(rows) ==
    {srt \in [1..Cardinality(rows) -> rows] :
        /\ \A i, j \in 1..Cardinality(rows) : i # j => srt[i] # srt[j]
        /\ \A i, j \in 1..Cardinality(rows) : i < j => ~(srt[j].count < srt[i].count)}

\* The slice filled from the map (in any order) and sorted by sort.Slice
\* with less = count greater: every order in which no row comes before one
\* it is less than.
SortOutcomes(rows) ==
    {srt \in [1..Cardinality(rows) -> rows] :
        /\ \A i, j \in 1..Cardinality(rows) : i # j => srt[i] # srt[j]
        /\ \A i, j \in 1..Cardinality(rows) : i < j => ~(srt[j].count > srt[i].count)}

\* runStats without the test for an empty capture: records[0] is indexed.
runStatsNoEmptyCheck(d, path, srt) ==
    LET oc == openCapture(d, path)
    IN  IF oc.err # <<>> THEN [NoResult EXCEPT !.err = oc.err]
        ELSE LET all == readAllPackets(oc.r.rest)
                 base == [Opened(oc) EXCEPT !.records = all.records]
             IN  IF all.err # NoErr THEN [base EXCEPT !.err = <<all.err>>]
                 ELSE IF Len(all.records) = 0
                    THEN [base EXCEPT !.indexed = TRUE, !.err = <<"panic: index out of range">>]
                 ELSE [base EXCEPT
                         !.statsSummary = TRUE,
                         !.statsRows = srt,
                         !.statsTotals = StatsTotals(all.records),
                         !.statsPackets = Len(all.records),
                         !.indexed = TRUE,
                         !.duration = all.records[Len(all.records)].TimestampNs
                                         - all.records[1].TimestampNs]

\* runStats, srt being the outcome of the sort: "Empty capture" for no
\* records; otherwise the summary, the totals and the rows.
runStats(d, path, srt) ==
    LET oc == openCapture(d, path)
    IN  IF oc.err # <<>> THEN [NoResult EXCEPT !.err = oc.err]
        ELSE LET all == readAllPackets(oc.r.rest)
                 base == [Opened(oc) EXCEPT !.records = all.records]
             IN  IF all.err # NoErr THEN [base EXCEPT !.err = <<all.err>>]
                 ELSE IF Len(all.records) = 0 THEN [base EXCEPT !.statsEmpty = TRUE]
                 ELSE [base EXCEPT
                         !.statsSummary = TRUE,
                         !.statsRows = srt,
                         !.statsTotals = StatsTotals(all.records),
                         !.statsPackets = Len(all.records),
                         !.indexed = TRUE,
                         !.duration = all.records[Len(all.records)].TimestampNs
                                         - all.records[1].TimestampNs]

\* The rows runStats sorts: those of the records it read, none if it
\* returned before.
RowsToSort(d, path) ==
    LET oc == openCapture(d, path)
    IN  IF oc.err # <<>> THEN {}
        ELSE LET all == readAllPackets(oc.r.rest)
             IN  IF all.err # NoErr THEN {} ELSE StatsMap(all.records)

\* The process ends: exit code 1 with the diagnostic, or 0.
Exited(run, mode) ==
    IF run.err # <<>>
        THEN [run EXCEPT !.exit = 1, !.stderr = << <<mode \o " failed">> \o run.err >>]
        ELSE [run EXCEPT !.exit = 0]

\* The header, metadata and records a test is about to write; no file yet.
InitCli ==
    /\ pc = [p \in Procs |-> "idle"]
    /\ mu = "free"
    /\ cur = [p \in Procs |-> NoCur]
    /\ now = 1
    /\ buf = <<>>
    /\ file = <<>>
    /\ started = [p \in Procs |-> 0]
    /\ innerLog = [p \in Procs |-> <<>>]
    /\ retLog = [p \in Procs |-> <<>>]
    /\ calls = <<>>
    /\ lockOrder = <<>>
    /\ wfails = 0
    /\ expected = <<>>
    /\ actual = <<>>
    /\ diffs = <<>>
    /\ cmpDone = FALSE
    /\ capIn \in [hdr : Headers, meta : Metas, recs : SeqsUpTo(TraceRecords, MaxTraceLen)]
    /\ disk = NoDisk
    /\ args = NoArgs
    /\ phase = "new"
    /\ result = NoResult
    /\ WizOff

\* createTestCapture without the Flush: the records stay in the buffer.
CreateCaptureNoFlush ==
    /\ phase = "new"
    /\ disk' = [exists |-> TRUE,
                bytes |-> EncodeFileHeader(capIn.hdr) \o EncodeMeta(capIn.meta),
                truncated |-> FALSE]
    /\ phase' = "written"
    /\ UNCHANGED <<capIn, args, result, tapCmpVars, wizVars>>

\* createTestCapture: NewWriter, WritePacket for every record, Flush.
CreateCapture ==
    /\ phase = "new"
    /\ disk' = [exists |-> TRUE,
                bytes |-> WriterOutput(capIn.hdr, capIn.meta, capIn.recs),
                truncated |-> FALSE]
    /\ phase' = "written"
    /\ UNCHANGED <<capIn, args, result, tapCmpVars, wizVars>>

\* Lengths at which a damaged file may end: inside the last record (one
\* or two bytes or one record header short), inside the metadata, inside the
\* header.
CutLengths(bytes) ==
    {Len(bytes) - 1, Len(bytes) - 2, Len(bytes) - RecHeaderLen, FileHeaderLen + 1,
     FileHeaderLen - 1}
        \cap 0..(Len(bytes) - 1)

\* The file loses its end (a capture cut short).
Truncate ==
    /\ phase = "written"
    /\ ~disk.truncated
    /\ \E n \in CutLengths(disk.bytes) :
         disk' = [disk EXCEPT !.bytes = SubSeq(disk.bytes, 1, n), !.truncated = TRUE]
    /\ UNCHANGED <<capIn, args, phase, result, tapCmpVars, wizVars>>

\* main -h: flag.Parse prints the usage and exits 0 (flag.ErrHelp under
\* flag.ExitOnError), before --capture is looked at.
MainHelp ==
    /\ phase = "written"
    /\ \E path \in {"", CapturePath} :
         args' = [capture |-> path, mode |-> "dump", target |-> "", parse |-> "help"]
    /\ result' = [NoResult EXCEPT !.exit = 0, !.stderr = << <<"usage">> >>]
    /\ phase' = "exited"
    /\ UNCHANGED <<capIn, disk, tapCmpVars, wizVars>>

\* main with a flag that is not defined, or a --speed that is no number:
\* flag.Parse reports it and exits 2.
MainBadFlag ==
    /\ phase = "written"
    /\ \E path \in {"", CapturePath} :
         args' = [capture |-> path, mode |-> "dump", target |-> "", parse |-> "bad"]
    /\ result' = [NoResult EXCEPT !.exit = 2,
                     !.stderr = << <<"flag provided but not defined">>, <<"usage">> >>]
    /\ phase' = "exited"
    /\ UNCHANGED <<capIn, disk, tapCmpVars, wizVars>>

\* main without --capture: error and exit 1, whatever the mode.
MainNoCapture ==
    /\ phase = "written"
    /\ \E m \in Modes : args' = [capture |-> "", mode |-> m, target |-> "", parse |-> "ok"]
    /\ result' = [NoResult EXCEPT !.exit = 1,
                     !.stderr = << <<"error: --capture is required">>, <<"usage">> >>]
    /\ phase' = "exited"
    /\ UNCHANGED <<capIn, disk, tapCmpVars, wizVars>>

\* main --mode dump
MainDump ==
    /\ phase = "written"
    /\ \E path \in {CapturePath, AbsentPath} :
         /\ args' = [capture |-> path, mode |-> "dump", target |-> "", parse |-> "ok"]
         /\ result' = Exited(runDump(disk, path), "dump")
    /\ phase' = "exited"
    /\ UNCHANGED <<capIn, disk, tapCmpVars, wizVars>>

\* main --mode json
MainJSON ==
    /\ phase = "written"
    /\ \E path \in {CapturePath, AbsentPath} :
         /\ args' = [capture |-> path, mode |-> "json", target |-> "", parse |-> "ok"]
         /\ result' = Exited(runJSON(disk, path), "json")
    /\ phase' = "exited"
    /\ UNCHANGED <<capIn, disk, tapCmpVars, wizVars>>

\* main --mode stats
MainStats ==
    /\ phase = "written"
    /\ \E path \in {CapturePath, AbsentPath} :
         /\ args' = [capture |-> path, mode |-> "stats", target |-> "", parse |-> "ok"]
         /\ \E srt \in SortOutcomes(RowsToSort(disk, path)) :
              result' = Exited(runStats(disk, path, srt), "stats")
    /\ phase' = "exited"
    /\ UNCHANGED <<capIn, disk, tapCmpVars, wizVars>>

\* main --mode replay reporting success when a target is given.
MainReplaySucceeds ==
    /\ phase = "written"
    /\ \E path \in {CapturePath, AbsentPath}, t \in {"", "127.0.0.1:54001"} :
         /\ args' = [capture |-> path, mode |-> "replay", target |-> t, parse |-> "ok"]
         /\ result' = IF t = ""
                         THEN [NoResult EXCEPT !.exit = 1,
                                 !.stderr = << <<"error: --target is required for replay mode">> >>]
                         ELSE [NoResult EXCEPT !.exit = 0]
    /\ phase' = "exited"
    /\ UNCHANGED <<capIn, disk, tapCmpVars, wizVars>>

\* main --mode replay: exit 1 without a target, and with one (not implemented).
MainReplay ==
    /\ phase = "written"
    /\ \E path \in {CapturePath, AbsentPath}, t \in {"", "127.0.0.1:54001"} :
         /\ args' = [capture |-> path, mode |-> "replay", target |-> t, parse |-> "ok"]
         /\ result' = [NoResult EXCEPT !.exit = 1,
                         !.stderr = IF t = ""
                            THEN << <<"error: --target is required for replay mode">> >>
                            ELSE << <<"replay mode not yet implemented">> >>]
    /\ phase' = "exited"
    /\ UNCHANGED <<capIn, disk, tapCmpVars, wizVars>>

\* main with a mode that is none of dump, json, stats, replay.
MainUnknownMode ==
    /\ phase = "written"
    /\ \E path \in {CapturePath, AbsentPath} :
         args' = [capture |-> path, mode |-> "bogus", target |-> "", parse |-> "ok"]
    /\ result' = [NoResult EXCEPT !.exit = 1, !.stderr = << <<"unknown mode", "bogus">> >>]
    /\ phase' = "exited"
    /\ UNCHANGED <<capIn, disk, tapCmpVars, wizVars>>

NextCli ==
    \/ CreateCapture
    \/ Truncate
    \/ MainHelp
    \/ MainBadFlag
    \/ MainNoCapture
    \/ MainDump
    \/ MainJSON
    \/ MainStats
    \/ MainReplay
    \/ MainUnknownMode

SpecCli == InitCli /\ [][NextCli]_vars

---------------------------------------------------------------------------
(* handleFinish. *)

\* The wizard is serving: done is open, no request has arrived.
InitFinish ==
    /\ TapCmpOff
    /\ CliOff
    /\ done = "open"
    /\ finish = [r \in Requests |-> NoFinish]
    /\ initdb = NoInitDB

\* A POST /api/setup/finish arrives while the wizard is serving.
FinishArrives(r) ==
    /\ finish[r].pc = "idle"
    /\ done = "open"
    /\ finish' = [finish EXCEPT ![r].pc = "decode"]
    /\ UNCHANGED <<done, initdb, tapCmpVars, cliVars>>

\* json.NewDecoder(r.Body).Decode(&req): 400 and return on an error.
FinishDecode(r) ==
    /\ finish[r].pc = "decode"
    /\ \/ finish' = [finish EXCEPT ![r].pc = "returned", ![r].status = 400]
       \/ finish' = [finish EXCEPT ![r].pc = "config", ![r].decoded = TRUE]
    /\ UNCHANGED <<done, initdb, tapCmpVars, cliVars>>

\* writeConfig(buildDefaultConfig(req)): 500 and return on an error,
\* otherwise the 200 response is written.
FinishWriteConfig(r) ==
    /\ finish[r].pc = "config"
    /\ \/ finish' = [finish EXCEPT ![r].pc = "returned", ![r].status = 500]
       \/ finish' = [finish EXCEPT ![r].pc = "close", ![r].wrote = TRUE, ![r].status = 200]
    /\ UNCHANGED <<done, initdb, tapCmpVars, cliVars>>

\* close(ws.done) only if done is still open (a sync.Once around the close).
FinishCloseOnce(r) ==
    /\ finish[r].pc = "close"
    /\ done' = "closed"
    /\ finish' = [finish EXCEPT ![r].pc = "returned", ![r].closed = (done = "open")]
    /\ UNCHANGED <<initdb, tapCmpVars, cliVars>>

\* close(ws.done): closes the channel, or panics with "close of closed
\* channel" when another request has closed it.
FinishClose(r) ==
    /\ finish[r].pc = "close"
    /\ done' = "closed"
    /\ finish' = [finish EXCEPT ![r].pc = IF done = "open" THEN "returned" ELSE "panicked",
                                ![r].closed = TRUE]
    /\ UNCHANGED <<initdb, tapCmpVars, cliVars>>

Arrive == \E r \in Requests : FinishArrives(r)

Decode == \E r \in Requests : FinishDecode(r)

WriteConfig == \E r \in Requests : FinishWriteConfig(r)

Close == \E r \in Requests : FinishClose(r)

NextFinish == Arrive \/ Decode \/ WriteConfig \/ Close

SpecFinish == InitFinish /\ [][NextFinish]_vars

---------------------------------------------------------------------------
(* handleInitDB, applySQLFiles, collectSQLFiles. *)

\* Entries of a schema directory: two .sql files (the name stands for its
\* rank in string order), a file without the suffix, a directory whose
\* name ends in .sql.
DirEntries ==
    {[name |-> 1, sql |-> TRUE, isDir |-> FALSE],
     [name |-> 2, sql |-> TRUE, isDir |-> FALSE],
     [name |-> 3, sql |-> FALSE, isDir |-> FALSE],
     [name |-> 4, sql |-> TRUE, isDir |-> TRUE]}

\* What os.ReadDir may return: distinct entries.
Listings ==
    {l \in SeqsUpTo(DirEntries, MaxDirEntries) :
        \A i, j \in 1..Len(l) : i # j => l[i] # l[j]}

\* What the environment makes fail in one applySQLFiles: nothing, the
\* reading of the directory, the reading or the execution of one file.
Fails ==
    {[kind |-> "none", name |-> 0], [kind |-> "readdir", name |-> 0]}
        \cup {[kind |-> k, name |-> n] : k \in {"read", "exec"}, n \in {1, 2}}

\* sort.Strings on names that are all different.
RECURSIVE SortStrings(_)
SortStrings(names) ==
    IF names = {} THEN <<>>
    ELSE LET m == CHOOSE x \in names : \A y \in names : x <= y
         IN  <<m>> \o SortStrings(names \ {m})

\* collectSQLFiles leaving the names in the order of the directory listing.
collectSQLFilesUnsorted(listing, fail) ==
    IF fail.kind = "readdir" THEN [files |-> <<>>, err |-> TRUE]
    ELSE LET kept == SelectSeq(listing, LAMBDA e : ~e.isDir /\ e.sql)
         IN  [files |-> [i \in 1..Len(kept) |-> kept[i].name], err |-> FALSE]

\* collectSQLFiles: the names of the entries that are no directories and
\* end in .sql, sorted.
collectSQLFiles(listing, fail) ==
    IF fail.kind = "readdir" THEN [files |-> <<>>, err |-> TRUE]
    ELSE LET kept == SelectSeq(listing, LAMBDA e : ~e.isDir /\ e.sql)
         IN  [files |-> SortStrings({kept[i].name : i \in 1..Len(kept)}), err |-> FALSE]

\* The loop of applySQLFiles: applied are the files appended to the
\* result, executed those handed to db.Exec.
RECURSIVE ApplyLoop(_, _)
ApplyLoop(files, fail) ==
    IF files = <<>> THEN [applied |-> <<>>, executed |-> <<>>, err |-> FALSE]
    ELSE IF fail.name = Head(files) /\ fail.kind = "read"
        THEN [applied |-> <<>>, executed |-> <<>>, err |-> TRUE]
    ELSE IF fail.name = Head(files) /\ fail.kind = "exec"
        THEN [applied |-> <<>>, executed |-> <<Head(files)>>, err |-> TRUE]
    ELSE LET t == ApplyLoop(Tail(files), fail)
         IN  [applied |-> <<Head(files)>> \o t.applied,
              executed |-> <<Head(files)>> \o t.executed,
              err |-> t.err]

applySQLFiles(listing, fail) ==
    LET c == collectSQLFiles(listing, fail)
    IN  IF c.err THEN [applied |-> <<>>, executed |-> <<>>, err |-> TRUE]
        ELSE ApplyLoop(c.files, fail)

InitDBRequests ==
    [CreateDB : BOOLEAN, ApplyInit : BOOLEAN, ApplyUpdate : BOOLEAN, ApplyPatch : BOOLEAN,
     ApplyBundled : BOOLEAN]

\* The request asks for a step.
Requested(req, step) ==
    \/ step = "create" /\ req.CreateDB
    \/ step = "init" /\ req.ApplyInit
    \/ step = "update" /\ req.ApplyUpdate
    \/ step = "patch" /\ req.ApplyPatch
    \/ step = "bundled" /\ req.ApplyBundled

\* writeJSON(w, http.StatusOK, {"success": ok, "log": log}) and return.
Respond(st, ok) ==
    [st EXCEPT !.pc = "returned", !.status = 200,
               !.success = IF ok THEN "true" ELSE "false"]

\* A step was run and failed: ERROR in the log, success=false, return.
StepFailed(st, step) ==
    Respond([st EXCEPT !.ran = Append(@, step), !.failed = Append(@, step)], FALSE)

\* No request to /api/setup/init-db has arrived.
InitInitDB ==
    /\ TapCmpOff
    /\ CliOff
    /\ WizOff

\* The request arrives and its body is decoded: 400 on an error.
InitDBDecode ==
    /\ initdb.pc = "idle"
    /\ \/ initdb' = [initdb EXCEPT !.pc = "returned", !.status = 400]
       \/ \E req \in InitDBRequests : initdb' = [initdb EXCEPT !.pc = "create", !.req = req]
    /\ UNCHANGED <<done, finish, tapCmpVars, cliVars>>

\* if req.CreateDB { createDatabase(...) }
InitDBCreate ==
    /\ initdb.pc = "create"
    /\ IF ~initdb.req.CreateDB THEN initdb' = [initdb EXCEPT !.pc = "init"]
       ELSE \/ initdb' = [initdb EXCEPT !.pc = "init", !.ran = Append(@, "create")]
            \/ initdb' = StepFailed(initdb, "create")
    /\ UNCHANGED <<done, finish, tapCmpVars, cliVars>>

\* if req.ApplyInit { applyInitSchema(...) }
InitDBInitSchema ==
    /\ initdb.pc = "init"
    /\ IF ~initdb.req.ApplyInit THEN initdb' = [initdb EXCEPT !.pc = "connect"]
       ELSE \/ initdb' = [initdb EXCEPT !.pc = "connect", !.ran = Append(@, "init")]
            \/ initdb' = StepFailed(initdb, "init")
    /\ UNCHANGED <<done, finish, tapCmpVars, cliVars>>

\* sql.Open for the update, patch and bundled schemas, if any is asked
\* for; with none, "Database initialization complete!" and success=true.
InitDBConnect ==
    /\ initdb.pc = "connect"
    /\ IF ~(initdb.req.ApplyUpdate \/ initdb.req.ApplyPatch \/ initdb.req.ApplyBundled)
          THEN initdb' = Respond(initdb, TRUE)
          ELSE \/ initdb' = [initdb EXCEPT !.pc = "update", !.connected = TRUE]
               \/ initdb' = Respond(initdb, FALSE)
    /\ UNCHANGED <<done, finish, tapCmpVars, cliVars>>

\* if req.Apply<X> { applyDir(dir, label) }, and what follows it: the next
\* directory, or success=true after the last.
InitDBApplyDir(step) ==
    /\ initdb.pc = step
    /\ LET next(st) == IF step = "update" THEN [st EXCEPT !.pc = "patch"]
                       ELSE IF step = "patch" THEN [st EXCEPT !.pc = "bundled"]
                       ELSE Respond(st, TRUE)
       IN  IF ~Requested(initdb.req, step) THEN initdb' = next(initdb)
           ELSE \E listing \in Listings, fail \in Fails :
                   LET r == applySQLFiles(listing, fail)
                       st == [initdb EXCEPT
                                !.last = [dir |-> step, listing |-> listing,
                                          fail |-> fail.kind, applied |-> r.applied,
                                          executed |-> r.executed, err |-> r.err]]
                   IN  initdb' = IF r.err THEN StepFailed(st, step)
                                 ELSE next([st EXCEPT !.ran = Append(@, step)])
    /\ UNCHANGED <<done, finish, tapCmpVars, cliVars>>

InitDBUpdate == InitDBApplyDir("update")

InitDBPatch == InitDBApplyDir("patch")

InitDBBundled == InitDBApplyDir("bundled")

NextInitDB ==
    \/ InitDBDecode
    \/ InitDBCreate
    \/ InitDBInitSchema
    \/ InitDBConnect
    \/ InitDBUpdate
    \/ InitDBPatch
    \/ InitDBBundled

SpecInitDB == InitInitDB /\ [][NextInitDB]_vars

---------------------------------------------------------------------------
(* ComparePackets. *)

\* Records given to the comparator: either direction, two opcodes, payloads
\* of two lengths, two of them of one length with different bytes.
CmpRecords ==
    [TimestampNs : {0},
     Direction : {DirClientToServer, DirServerToClient},
     Opcode : {18, 97},
     Payload : { <<0, 18>>, <<0, 97>>, <<0, 18, 170>> }]

\* pcap.FilterByDirection: the records of one direction, in their order.
FilterByDirection(records, dir) == SelectSeq(records, LAMBDA r : r.Direction = dir)

\* A PacketDiff.  Actual is a pointer: <<>> is nil, <<r>> points to r.
PacketDiff(i, exp, act, mismatch, delta) ==
    [Index |-> i, Expected |-> exp, Actual |-> act,
     OpcodeMismatch |-> mismatch, SizeDelta |-> delta]

\* WalkExpected with the size delta taken as expected minus actual.
RECURSIVE WalkExpectedDeltaSwapped(_, _, _)
WalkExpectedDeltaSwapped(expectedS2C, actualS2C, i) ==
    IF i >= Len(expectedS2C) THEN <<>>
    ELSE LET exp == expectedS2C[i + 1]
             rest == WalkExpectedDeltaSwapped(expectedS2C, actualS2C, i + 1)
         IN  IF i >= Len(actualS2C)
                THEN <<PacketDiff(i, exp, <<>>, FALSE, 0)>> \o rest
             ELSE LET act == actualS2C[i + 1]
                  IN  IF exp.Opcode # act.Opcode
                         THEN <<PacketDiff(i, exp, <<act>>, TRUE, 0)>> \o rest
                      ELSE IF Len(exp.Payload) # Len(act.Payload)
                         THEN <<PacketDiff(i, exp, <<act>>, FALSE,
                                           Len(exp.Payload) - Len(act.Payload))>> \o rest
                      ELSE rest

\* WalkExpected comparing the payload bytes, not only their number.
RECURSIVE WalkExpectedByteExact(_, _, _)
WalkExpectedByteExact(expectedS2C, actualS2C, i) ==
    IF i >= Len(expectedS2C) THEN <<>>
    ELSE LET exp == expectedS2C[i + 1]
             rest == WalkExpectedByteExact(expectedS2C, actualS2C, i + 1)
         IN  IF i >= Len(actualS2C)
                THEN <<PacketDiff(i, exp, <<>>, FALSE, 0)>> \o rest
             ELSE LET act == actualS2C[i + 1]
                  IN  IF exp.Opcode # act.Opcode
                         THEN <<PacketDiff(i, exp, <<act>>, TRUE, 0)>> \o rest
                      ELSE IF exp.Payload # act.Payload
                         THEN <<PacketDiff(i, exp, <<act>>, FALSE,
                                           Len(act.Payload) - Len(exp.Payload))>> \o rest
                      ELSE rest

\* WalkExpected reporting a size delta at every position with equal opcodes.
RECURSIVE WalkExpectedNoLengthTest(_, _, _)
WalkExpectedNoLengthTest(expectedS2C, actualS2C, i) ==
    IF i >= Len(expectedS2C) THEN <<>>
    ELSE LET exp == expectedS2C[i + 1]
             rest == WalkExpectedNoLengthTest(expectedS2C, actualS2C, i + 1)
         IN  IF i >= Len(actualS2C)
                THEN <<PacketDiff(i, exp, <<>>, FALSE, 0)>> \o rest
             ELSE LET act == actualS2C[i + 1]
                  IN  IF exp.Opcode # act.Opcode
                         THEN <<PacketDiff(i, exp, <<act>>, TRUE, 0)>> \o rest
                      ELSE <<PacketDiff(i, exp, <<act>>, FALSE,
                                        Len(act.Payload) - Len(exp.Payload))>> \o rest

\* The loop over expectedS2C, from index i (0-based) on.
RECURSIVE WalkExpected(_, _, _)
WalkExpected(expectedS2C, actualS2C, i) ==
    IF i >= Len(expectedS2C) THEN <<>>
    ELSE LET exp == expectedS2C[i + 1]
             rest == WalkExpected(expectedS2C, actualS2C, i + 1)
         IN  IF i >= Len(actualS2C)
                THEN <<PacketDiff(i, exp, <<>>, FALSE, 0)>> \o rest
             ELSE LET act == actualS2C[i + 1]
                  IN  IF exp.Opcode # act.Opcode
                         THEN <<PacketDiff(i, exp, <<act>>, TRUE, 0)>> \o rest
                      ELSE IF Len(exp.Payload) # Len(act.Payload)
                         THEN <<PacketDiff(i, exp, <<act>>, FALSE,
                                           Len(act.Payload) - Len(exp.Payload))>> \o rest
                      ELSE rest

\* ExtraActual starting one record too late.
ExtraActualOffByOne(expectedS2C, actualS2C) ==
    IF Len(actualS2C) <= Len(expectedS2C) + 1 THEN <<>>
    ELSE [j \in 1..(Len(actualS2C) - Len(expectedS2C) - 1) |->
            PacketDiff(Len(expectedS2C) + j, NoRec,
                       <<actualS2C[Len(expectedS2C) + j + 1]>>, FALSE, 0)]

\* ExtraActual giving the length of the extra record as its size delta.
ExtraActualWithDelta(expectedS2C, actualS2C) ==
    IF Len(actualS2C) <= Len(expectedS2C) THEN <<>>
    ELSE [j \in 1..(Len(actualS2C) - Len(expectedS2C)) |->
            PacketDiff(Len(expectedS2C) + j - 1, NoRec,
                       <<actualS2C[Len(expectedS2C) + j]>>, FALSE,
                       Len(actualS2C[Len(expectedS2C) + j].Payload))]

\* The loop over the actual records beyond the expected ones.
ExtraActual(expectedS2C, actualS2C) ==
    IF Len(actualS2C) <= Len(expectedS2C) THEN <<>>
    ELSE [j \in 1..(Len(actualS2C) - Len(expectedS2C)) |->
            PacketDiff(Len(expectedS2C) + j - 1, NoRec,
                       <<actualS2C[Len(expectedS2C) + j]>>, FALSE, 0)]

\* ComparePackets reporting the extra records before the positional diffs.
ComparePacketsExtrasFirst(exp, act) ==
    LET expectedS2C == FilterByDirection(exp, DirServerToClient)
        actualS2C == FilterByDirection(act, DirServerToClient)
    IN  ExtraActual(expectedS2C, actualS2C) \o WalkExpected(expectedS2C, actualS2C, 0)

\* ComparePackets with the expected sequence left unfiltered.
ComparePacketsUnfiltered(exp, act) ==
    LET actualS2C == FilterByDirection(act, DirServerToClient)
    IN  WalkExpected(exp, actualS2C, 0) \o ExtraActual(exp, actualS2C)

ComparePackets(exp, act) ==
    LET expectedS2C == FilterByDirection(exp, DirServerToClient)
        actualS2C == FilterByDirection(act, DirServerToClient)
    IN  WalkExpected(expectedS2C, actualS2C, 0) \o ExtraActual(expectedS2C, actualS2C)

\* The comparator is given two decoded sequences; the tap is at rest.
InitCmp ==
    /\ pc = [p \in Procs |-> "idle"]
    /\ mu = "free"
    /\ cur = [p \in Procs |-> NoCur]
    /\ now = 1
    /\ buf = <<>>
    /\ file = <<>>
    /\ started = [p \in Procs |-> 0]
    /\ innerLog = [p \in Procs |-> <<>>]
    /\ retLog = [p \in Procs |-> <<>>]
    /\ calls = <<>>
    /\ lockOrder = <<>>
    /\ wfails = 0
    /\ expected \in SeqsUpTo(CmpRecords, MaxCmpLen)
    /\ actual \in SeqsUpTo(CmpRecords, MaxCmpLen)
    /\ diffs = <<>>
    /\ cmpDone = FALSE
    /\ CliOff
    /\ WizOff

\* diffs := ComparePackets(expected, actual)
Compare ==
    /\ ~cmpDone
    /\ diffs' = ComparePackets(expected, actual)
    /\ cmpDone' = TRUE
    /\ UNCHANGED <<expected, actual, pc, mu, cur, now, buf, file, started, innerLog,
                   retLog, calls, lockOrder, wfails, cliVars, wizVars>>

NextCmp == Compare

SpecCmp == InitCmp /\ [][NextCmp]_vars

\* The state after NewRecordingConn; the comparator is not used.
Init ==
    /\ pc = [p \in Procs |-> "idle"]
    /\ mu = "free"
    /\ cur = [p \in Procs |-> NoCur]
    /\ now = 1
    /\ buf = <<>>
    /\ file = <<>>
    /\ started = [p \in Procs |-> 0]
    /\ innerLog = [p \in Procs |-> <<>>]
    /\ retLog = [p \in Procs |-> <<>>]
    /\ calls = <<>>
    /\ lockOrder = <<>>
    /\ wfails = 0
    /\ expected = <<>>
    /\ actual = <<>>
    /\ diffs = <<>>
    /\ cmpDone = FALSE
    /\ CliOff
    /\ WizOff

Next ==
    \/ CallReadPacket
    \/ InnerReadFail
    \/ InnerReadOk
    \/ CallSendPacket
    \/ InnerSendFail
    \/ InnerSendOk
    \/ RecvRecord
    \/ SendRecord
    \/ Flush

Spec == Init /\ [][Next]_vars


---------------------------------------------------------------------------
(* Properties of the recording tap. *)

\* The payloads handed to WritePacket for one goroutine's direction, in order.
Appended(p) ==
    LET own == SelectSeq(calls, LAMBDA r : r.Direction = DirOf(p))
    IN  [i \in 1..Len(own) |-> own[i].Payload]

\* The packets the inner connection has accepted or delivered without error.
Forwarded(p) ==
    LET ok == SelectSeq(innerLog[p], LAMBDA e : e.err = NoErr)
    IN  [i \in 1..Len(ok) |-> ok[i].data]

IsPrefix(s, t) == Len(s) <= Len(t) /\ s = SubSeq(t, 1, Len(s))

InWritePacket(p) == pc[p] \in {"whdr", "wpay"}

Finished ==
    /\ \A p \in Procs : pc[p] = "idle"
    /\ started["recv"] = MaxReads
    /\ started["send"] = MaxSends

RECURSIVE EncodeAll(_)
EncodeAll(recs) ==
    IF recs = <<>> THEN <<>>
    ELSE EncodeHeader(Head(recs)) \o Head(recs).Payload \o EncodeAll(Tail(recs))

\* C1 as stated: while the inner SendPacket of a call is executing, the
\* server-to-client record of that call has already been handed to the
\* writer (one record per SendPacket call begun).
C1_RecordBeforeInnerSend ==
    pc["send"] = "inner" => Len(Appended("send")) = started["send"]

\* C1, amended: SendPacket calls the inner SendPacket first and hands the
\* server-to-client record to the writer only after it returned nil: while
\* the inner SendPacket executes, the records appended are exactly the
\* packets of the earlier successful sends, and at no time is there a
\* record for a packet the inner connection has not accepted.
C1_RecordAfterInnerSend ==
    /\ IsPrefix(Appended("send"), Forwarded("send"))
    /\ pc["send"] = "inner" =>
          /\ Appended("send") = Forwarded("send")
          /\ Len(Appended("send")) < started["send"]
    /\ pc["send"] = "idle" => Appended("send") = Forwarded("send")

\* A second SendPacket is inside the inner connection, the first one is
\* recorded, and a ReadPacket is running concurrently.
C1_Witness ==
    /\ pc["send"] = "inner"
    /\ started["send"] = 2
    /\ Len(Appended("send")) = 1
    /\ pc["recv"] \in {"lock", "whdr", "wpay"}

\* C2: whenever the inner SendPacket returned an error, SendPacket returned
\* that same error, and every SendPacket call that is over has returned.
C2_SendErrorPropagates ==
    /\ Len(retLog["send"]) <= Len(innerLog["send"])
    /\ \A i \in 1..Len(retLog["send"]) :
          innerLog["send"][i].err # NoErr =>
              retLog["send"][i].err = innerLog["send"][i].err
    /\ pc["send"] = "idle" =>
          /\ Len(retLog["send"]) = started["send"]
          /\ Len(innerLog["send"]) = started["send"]

\* A send was recorded, and the next one failed in the inner connection
\* with ErrClosed, which SendPacket returned.
C2_Witness ==
    /\ Len(retLog["send"]) = 2
    /\ innerLog["send"][2].err = "ErrClosed"
    /\ retLog["send"][2].err = "ErrClosed"
    /\ Len(Appended("send")) = 1

\* C3: a failure of WritePacket is never surfaced: every call that is over
\* returned exactly what the inner connection returned (bytes and error),
\* whether or not a WritePacket failed, and a goroutine at rest has had all
\* its calls returned and does not hold the mutex.
C3_WriteFailureSwallowed ==
    \A p \in Procs :
        /\ Len(retLog[p]) <= Len(innerLog[p])
        /\ \A i \in 1..Len(retLog[p]) : retLog[p][i] = innerLog[p][i]
        /\ pc[p] = "idle" => Len(retLog[p]) = started[p] /\ mu # p

\* The WritePacket of a first call failed, and the later calls of both
\* goroutines were forwarded and returned without error.
C3_Witness ==
    /\ Finished
    /\ wfails = 1
    /\ \A p \in Procs :
          /\ cur[p].werr = NoErr
          /\ Len(retLog[p]) = 2
          /\ \A i \in 1..2 : retLog[p][i].err = NoErr

\* C4: ReadPacket calls the inner ReadPacket first; while it executes and
\* after ReadPacket returned, the client-to-server records handed to the
\* writer are exactly the packets received without error, one each, in
\* order (none for a failed read), and ReadPacket returned the bytes and
\* the error of the inner connection unchanged.
C4_ReadThenRecord ==
    /\ pc["recv"] \in {"idle", "inner", "wpay", "unlock"} =>
          Appended("recv") = Forwarded("recv")
    /\ pc["recv"] \in {"record", "lock", "whdr"} =>
          /\ Forwarded("recv") # <<>>
          /\ Appended("recv") = SubSeq(Forwarded("recv"), 1, Len(Forwarded("recv")) - 1)
    /\ pc["recv"] = "idle" => Len(retLog["recv"]) = started["recv"]
    /\ \A i \in 1..Len(retLog["recv"]) :
          /\ retLog["recv"][i].err = innerLog["recv"][i].err
          /\ retLog["recv"][i].data = innerLog["recv"][i].data

\* A read failed and was not recorded, the next one succeeded and was.
C4_Witness ==
    /\ pc["recv"] = "idle"
    /\ Len(retLog["recv"]) = 2
    /\ retLog["recv"][1].err = "EOF"
    /\ retLog["recv"][2] = [data |-> <<0, 19, 170>>, err |-> NoErr]
    /\ Appended("recv") = << <<0, 19, 170>> >>

\* C5: every record the tap hands to the writer, in either direction, has
\* opcode = 256 * payload[0] + payload[1] when the payload has at least two
\* bytes and opcode = 0 otherwise, and so has every record decoded from the
\* flushed trace when no write failed.
C5_OpcodeInvariant ==
    LET Holds(r) == r.Opcode = (IF Len(r.Payload) >= 2
                                   THEN 256 * r.Payload[1] + r.Payload[2] ELSE 0)
    IN  /\ \A i \in 1..Len(calls) : Holds(calls[i])
        /\ wfails = 0 =>
              \A r \in { readAllPackets(file).records[i] :
                            i \in 1..Len(readAllPackets(file).records) } : Holds(r)

\* Records of both directions were appended, with payloads of 0, 1 and 3
\* bytes and opcodes 0 and 0x0013.
C5_Witness ==
    /\ \E i \in 1..Len(calls) :
          calls[i].Direction = DirClientToServer /\ calls[i].Opcode = 19
    /\ \E i \in 1..Len(calls) :
          calls[i].Direction = DirServerToClient /\ calls[i].Opcode = 19
    /\ \E i \in 1..Len(calls) : calls[i].Payload = <<5>> /\ calls[i].Opcode = 0
    /\ \E i \in 1..Len(calls) : calls[i].Payload = <<>> /\ calls[i].Opcode = 0

\* C6: at most one goroutine is inside WritePacket at any time, and the
\* writer sees the appends one after the other: when no write failed, the
\* stream is the encoding of the records appended so far, the last of them
\* possibly still without its payload.
C6_OneWriterAtATime ==
    /\ ~(InWritePacket("recv") /\ InWritePacket("send"))
    /\ \A p \in Procs : InWritePacket(p) \/ pc[p] = "unlock" => mu = p
    /\ wfails = 0 =>
          file \o buf =
              IF \E p \in Procs : pc[p] = "wpay"
                 THEN EncodeAll(SubSeq(calls, 1, Len(calls) - 1))
                          \o EncodeHeader(calls[Len(calls)])
                 ELSE EncodeAll(calls)

\* One goroutine is between the two writes of WritePacket while the other
\* waits for the mutex.
C6_Witness ==
    \E p \in Procs : pc[p] = "wpay" /\ pc[Other(p)] = "lock" /\ Len(calls) >= 2

\* C7: once both goroutines have made all their calls and the writer was
\* flushed, if no write failed the trace decodes, without error and up to
\* end-of-stream, to exactly the records handed to the writer: one per
\* successful ReadPacket and one per successful SendPacket (N + M when all
\* succeed), none lost, duplicated or corrupted.
C7_ConcurrentTraceComplete ==
    (Finished /\ buf = <<>> /\ wfails = 0) =>
        LET t == readAllPackets(file)
        IN  /\ t.err = NoErr
            /\ Len(t.records) = OkCount(innerLog["recv"]) + OkCount(innerLog["send"])
            /\ t.records = calls
            /\ [i \in 1..Len(Forwarded("recv")) |->
                    SelectSeq(t.records, LAMBDA r : r.Direction = DirClientToServer)[i].Payload]
                  = Forwarded("recv")
            /\ [i \in 1..Len(Forwarded("send")) |->
                    SelectSeq(t.records, LAMBDA r : r.Direction = DirServerToClient)[i].Payload]
                  = Forwarded("send")

\* All N reads and M sends succeeded, interleaved, and the flushed trace
\* holds N + M records.
C7_Witness ==
    /\ Finished /\ buf = <<>> /\ wfails = 0
    /\ \A p \in Procs : ErrCount(innerLog[p]) = 0
    /\ Len(readAllPackets(file).records) = MaxReads + MaxSends
    /\ readAllPackets(file).records[1].Direction = DirServerToClient
    /\ readAllPackets(file).records[2].Direction = DirClientToServer
    /\ readAllPackets(file).records[3].Direction = DirServerToClient

\* The steps of record for one goroutine.
RecordStep(p) ==
    BuildRecord(p) \/ Lock(p) \/ WriteHeader(p) \/ WritePayload(p) \/ Unlock(p)

\* C8: the mutex is held only around the writer append and never while a
\* goroutine is inside the inner connection; a goroutine that is recording
\* while the other one is inside the inner connection (or at rest) can
\* always take its next step, and of two goroutines that are both
\* recording at least one can (no deadlock).
C8_LockOnlyAroundAppend ==
    /\ \A p \in Procs :
          /\ mu = p => pc[p] \in {"whdr", "wpay", "unlock"}
          /\ pc[p] \in {"inner", "idle", "record", "lock"} => mu # p
          /\ (pc[p] \in {"record", "lock", "whdr", "wpay", "unlock"}
                /\ pc[Other(p)] \in {"inner", "idle"}) => ENABLED RecordStep(p)
    /\ mu \in Procs \cup {"free"}
    /\ (\A p \in Procs : pc[p] \in {"record", "lock", "whdr", "wpay", "unlock"}) =>
          \E p \in Procs : ENABLED RecordStep(p)

\* The first ReadPacket is still blocked inside the inner connection and
\* both SendPacket calls have completed and been recorded meanwhile.
C8_Witness ==
    /\ pc["recv"] = "inner"
    /\ started["recv"] = 1
    /\ innerLog["recv"] = <<>>
    /\ pc["send"] = "idle"
    /\ Len(retLog["send"]) = 2
    /\ Len(Appended("send")) = 2

\* C9: records are appended in the order in which their goroutines
\* acquired the mutex, and each goroutine has read the clock before it
\* asks for the mutex: the records handed to WritePacket are those of the
\* lock acquisitions, in order, and, when no write failed, the complete
\* records of the stream are a prefix of them.
C9_AppendOrderIsLockOrder ==
    /\ calls = IF \E p \in Procs : pc[p] = "whdr"
                  THEN SubSeq(lockOrder, 1, Len(lockOrder) - 1)
                  ELSE lockOrder
    /\ \A p \in Procs :
          pc[p] \in {"lock", "whdr", "wpay", "unlock"} =>
              /\ cur[p].rec.TimestampNs >= 2
              /\ cur[p].rec.TimestampNs <= now
    /\ wfails = 0 => IsPrefix(readAllPackets(file \o buf).records, lockOrder)
    /\ (wfails = 0 /\ \A p \in Procs : ~InWritePacket(p)) =>
          readAllPackets(file \o buf).records = lockOrder

\* One ReadPacket and one SendPacket ran concurrently, and the record
\* appended first carries a strictly later timestamp than the second.
C9_Witness ==
    /\ wfails = 0
    /\ Len(readAllPackets(file \o buf).records) = 2
    /\ readAllPackets(file \o buf).records[1].TimestampNs
          > readAllPackets(file \o buf).records[2].TimestampNs
    /\ readAllPackets(file \o buf).records[1].Direction
          # readAllPackets(file \o buf).records[2].Direction
    /\ started = [p \in Procs |-> 1]

---------------------------------------------------------------------------
(* Properties of ComparePackets. *)

\* A sequence with every client-to-server record removed.
WithoutClientToServer(records) ==
    SelectSeq(records, LAMBDA r : r.Direction # DirClientToServer)

\* C10: ComparePackets ignores client-to-server records: its result is the
\* result for the two sequences with every client-to-server record
\* removed, no diff carries a client-to-server record, and a diff's Index
\* is the position of its records among the server-to-client records.
C10_ClientToServerIgnored ==
    cmpDone =>
        LET e == WithoutClientToServer(expected)
            a == WithoutClientToServer(actual)
        IN  /\ diffs = ComparePackets(e, a)
            /\ \A k \in 1..Len(diffs) :
                  LET d == diffs[k]
                  IN  /\ d.Index >= 0
                      /\ d.Index < Len(e) \/ d.Index < Len(a)
                      /\ d.Index < Len(e) => d.Expected = e[d.Index + 1]
                      /\ d.Index >= Len(e) => d.Expected = NoRec
                      /\ d.Actual # <<>> => d.Actual = <<a[d.Index + 1]>>
                      /\ d.Actual = <<>> => d.Index >= Len(a)

\* Both sequences start with a client-to-server record, and the diff of
\* the server-to-client records that follow has Index 0.
C10_Witness ==
    /\ cmpDone
    /\ Len(expected) = 2 /\ Len(actual) = 2
    /\ expected[1].Direction = DirClientToServer
    /\ actual[1].Direction = DirClientToServer
    /\ expected[2].Direction = DirServerToClient
    /\ actual[2].Direction = DirServerToClient
    /\ Len(diffs) = 1
    /\ diffs[1].Index = 0
    /\ diffs[1].OpcodeMismatch

\* The diffs of a result that have a given Index.
DiffsAt(i) == {k \in 1..Len(diffs) : diffs[k].Index = i}

\* C11: for every index i below the number of server-to-client expected
\* records there is at most one diff with Index i: a missing-response
\* (Actual nil, the expected record only) if actual has no i-th
\* server-to-client record; otherwise an opcode-mismatch with both records
\* if the opcodes differ; otherwise a size-delta with SizeDelta = length of
\* the actual payload minus length of the expected one if the lengths
\* differ; otherwise none.
C11_PositionalDiffs ==
    cmpDone =>
        LET e == WithoutClientToServer(expected)
            a == WithoutClientToServer(actual)
        IN  \A i \in 0..(Len(e) - 1) :
                /\ Cardinality(DiffsAt(i)) <= 1
                /\ IF i >= Len(a)
                      THEN /\ DiffsAt(i) # {}
                           /\ \A k \in DiffsAt(i) :
                                 diffs[k] = [Index |-> i, Expected |-> e[i + 1],
                                             Actual |-> <<>>, OpcodeMismatch |-> FALSE,
                                             SizeDelta |-> 0]
                   ELSE IF e[i + 1].Opcode # a[i + 1].Opcode
                      THEN /\ DiffsAt(i) # {}
                           /\ \A k \in DiffsAt(i) :
                                 diffs[k] = [Index |-> i, Expected |-> e[i + 1],
                                             Actual |-> <<a[i + 1]>>, OpcodeMismatch |-> TRUE,
                                             SizeDelta |-> 0]
                   ELSE IF Len(e[i + 1].Payload) # Len(a[i + 1].Payload)
                      THEN /\ DiffsAt(i) # {}
                           /\ \A k \in DiffsAt(i) :
                                 diffs[k] = [Index |-> i, Expected |-> e[i + 1],
                                             Actual |-> <<a[i + 1]>>, OpcodeMismatch |-> FALSE,
                                             SizeDelta |-> Len(a[i + 1].Payload)
                                                             - Len(e[i + 1].Payload)]
                   ELSE DiffsAt(i) = {}

\* A shorter actual payload at index 0 (size delta -1) and no actual record
\* at index 1 (missing response).
C11_Witness ==
    /\ cmpDone
    /\ Len(diffs) = 2
    /\ diffs[1].Index = 0 /\ diffs[1].SizeDelta = -1 /\ ~diffs[1].OpcodeMismatch
    /\ diffs[2].Index = 1 /\ diffs[2].Actual = <<>>

\* C12: every server-to-client actual record at a filtered index i at or
\* beyond the number of server-to-client expected records yields exactly
\* one diff with Index i, a zero-valued Expected record and Actual that
\* record, and no diff with a zero-valued Expected record comes from any
\* other record.
C12_UnexpectedExtra ==
    cmpDone =>
        LET e == WithoutClientToServer(expected)
            a == WithoutClientToServer(actual)
        IN  /\ \A i \in Len(e)..(Len(a) - 1) :
                  /\ Cardinality(DiffsAt(i)) = 1
                  /\ \A k \in DiffsAt(i) :
                        diffs[k] = [Index |-> i, Expected |-> NoRec,
                                    Actual |-> <<a[i + 1]>>, OpcodeMismatch |-> FALSE,
                                    SizeDelta |-> 0]
            /\ \A k \in 1..Len(diffs) :
                  (diffs[k].Expected = NoRec \/ diffs[k].Index >= Len(e)) =>
                      /\ diffs[k].Index >= Len(e)
                      /\ diffs[k].Index < Len(a)
                      /\ diffs[k].Expected = NoRec

\* One expected response, matched, and one more actual response: a single
\* unexpected-extra diff with Index 1.
C12_Witness ==
    /\ cmpDone
    /\ Len(WithoutClientToServer(expected)) = 1
    /\ Len(WithoutClientToServer(actual)) = 2
    /\ Len(diffs) = 1
    /\ diffs[1].Index = 1
    /\ diffs[1].Expected = NoRec
    /\ diffs[1].Actual = <<actual[2]>>

\* C13: the Index values of the result are strictly increasing; the
\* positional diffs come first and the unexpected-extra diffs last; a
\* missing-response and an unexpected-extra never occur in one result.
C13_DiffOrder ==
    cmpDone =>
        LET e == WithoutClientToServer(expected)
            IsExtra(d) == d.Index >= Len(e)
            IsMissing(d) == d.Actual = <<>>
        IN  /\ \A k \in 1..(Len(diffs) - 1) : diffs[k].Index < diffs[k + 1].Index
            /\ \A j, k \in 1..Len(diffs) :
                  (IsExtra(diffs[j]) /\ ~IsExtra(diffs[k])) => k < j
            /\ ~\E j, k \in 1..Len(diffs) : IsMissing(diffs[j]) /\ IsExtra(diffs[k])

\* An opcode mismatch at index 0 followed by an unexpected extra at index 1.
C13_Witness ==
    /\ cmpDone
    /\ Len(diffs) = 2
    /\ diffs[1].Index = 0 /\ diffs[1].OpcodeMismatch
    /\ diffs[2].Index = 1 /\ diffs[2].Expected = NoRec

\* A record with the same direction, opcode and payload length, other
\* payload bytes and another timestamp.
SameAttributes(r) ==
    [TimestampNs |-> r.TimestampNs + 1, Direction |-> r.Direction, Opcode |-> r.Opcode,
     Payload |-> [i \in 1..Len(r.Payload) |-> 0]]

SameAttributesSeq(records) == [i \in 1..Len(records) |-> SameAttributes(records[i])]

\* What a diff decides: its Index, whether Actual is nil, OpcodeMismatch
\* and SizeDelta (not the records it carries).
DiffShape(d) ==
    [Index |-> d.Index, ActualNil |-> d.Actual = <<>>,
     OpcodeMismatch |-> d.OpcodeMismatch, SizeDelta |-> d.SizeDelta]

DiffShapes(ds) == [k \in 1..Len(ds) |-> DiffShape(ds[k])]

\* C14 as stated: inputs that agree on direction, opcode and payload length
\* at every position produce the same diffs.
C14_SameDiffs ==
    cmpDone =>
        diffs = ComparePackets(SameAttributesSeq(expected), SameAttributesSeq(actual))

\* C14, amended: inputs that agree on direction, opcode and payload length
\* at every position produce diffs that agree in number, Index, nil-ness of
\* Actual, OpcodeMismatch and SizeDelta (each diff carries the records of
\* its own input); server-to-client records with equal opcodes and payloads
\* of equal length produce no diff, whatever their bytes and timestamps.
C14_SameDiffShapes ==
    cmpDone =>
        LET e == WithoutClientToServer(expected)
            a == WithoutClientToServer(actual)
        IN  /\ DiffShapes(diffs)
                  = DiffShapes(ComparePackets(SameAttributesSeq(expected),
                                              SameAttributesSeq(actual)))
            /\ \A i \in 0..(Len(e) - 1) :
                  (/\ i < Len(a)
                   /\ e[i + 1].Opcode = a[i + 1].Opcode
                   /\ Len(e[i + 1].Payload) = Len(a[i + 1].Payload)) => DiffsAt(i) = {}

\* Two server-to-client records with one opcode and payloads of one length
\* but different bytes: no diff.
C14_Witness ==
    /\ cmpDone
    /\ Len(expected) = 1 /\ Len(actual) = 1
    /\ expected[1].Direction = DirServerToClient
    /\ actual[1].Direction = DirServerToClient
    /\ expected[1].Opcode = actual[1].Opcode
    /\ expected[1].Payload = <<0, 18>>
    /\ actual[1].Payload = <<0, 97>>
    /\ diffs = <<>>

---------------------------------------------------------------------------
(* The replay tool and the capture file. *)

\* The bytes of the file after the header and the metadata of the capture.
Body ==
    SubSeq(disk.bytes, Len(EncodeFileHeader(capIn.hdr)) + Len(EncodeMeta(capIn.meta)) + 1,
           Len(disk.bytes))

\* The first k records handed to the writer.
FirstRecords(k) == SubSeq(capIn.recs, 1, k)

\* The file holds exactly the first k records after its header and metadata.
HoldsComplete(k) ==
    /\ Len(disk.bytes) >= Len(EncodeFileHeader(capIn.hdr)) + Len(EncodeMeta(capIn.meta))
    /\ Body = EncodeRecords(FirstRecords(k))

\* The file holds the first k records and a part, not all, of the next.
HoldsPartial(k) ==
    /\ Len(disk.bytes) >= Len(EncodeFileHeader(capIn.hdr)) + Len(EncodeMeta(capIn.meta))
    /\ k < Len(capIn.recs)
    /\ Len(Body) > Len(EncodeRecords(FirstRecords(k)))
    /\ Len(Body) < Len(EncodeRecords(FirstRecords(k + 1)))
    /\ IsPrefix(Body, EncodeRecords(FirstRecords(k + 1)))

\* The error of the k-th ReadPacket on a reader positioned at bytes (the
\* first error repeats on later reads).
RECURSIVE ReadErrAt(_, _)
ReadErrAt(bytes, k) ==
    LET r == ReaderReadPacket(bytes)
    IN  IF k <= 1 \/ r.err # NoErr THEN r.err ELSE ReadErrAt(r.rest, k - 1)

\* Opening the capture named on the command line, or decoding it, fails.
OpenOrDecodeFails ==
    \/ ~disk.exists
    \/ args.capture # CapturePath
    \/ NewReader(disk.bytes).err # NoErr
    \/ readAllPackets(NewReader(disk.bytes).rest).err # NoErr

\* Nothing was written to standard output.
NoOutput ==
    /\ ~result.dumpHeader /\ result.dumpLines = <<>> /\ result.dumpTotal = -1
    /\ ~result.jsonDoc /\ result.jsonPackets = <<>>
    /\ ~result.statsEmpty /\ ~result.statsSummary /\ result.statsRows = <<>>

\* The rows of the per-opcode table for one opcode.
RowsOf(op) == {i \in 1..Len(result.statsRows) : result.statsRows[i].opcode = op}

\* The positions of the records read that carry one opcode.
RecordsOf(op) == {i \in 1..Len(result.records) : result.records[i].Opcode = op}

RECURSIVE SumPayloadLens(_)
SumPayloadLens(idx) ==
    IF idx = {} THEN 0
    ELSE LET i == CHOOSE x \in idx : TRUE
         IN  Len(result.records[i].Payload) + SumPayloadLens(idx \ {i})

\* C15: runStats on a trace with zero records returns no error, reports
\* zero packets ("Empty capture"), and neither computes a duration nor
\* indexes a first or last record.
C15_EmptyStats ==
    (/\ phase = "exited"
     /\ args.parse = "ok"
     /\ args.mode = "stats"
     /\ args.capture # ""
     /\ ~OpenOrDecodeFails
     /\ readAllPackets(NewReader(disk.bytes).rest).records = <<>>) =>
        /\ result.err = <<>>
        /\ result.exit = 0
        /\ result.statsEmpty
        /\ result.statsPackets = 0
        /\ ~result.indexed
        /\ result.duration = 0
        /\ ~result.statsSummary
        /\ result.statsRows = <<>>
        /\ result.statsTotals = NoTotals

\* Stats has run on a capture written with no records.
C15_Witness ==
    /\ phase = "exited"
    /\ args.parse = "ok"
    /\ args.mode = "stats"
    /\ capIn.recs = <<>>
    /\ ~disk.truncated
    /\ result.statsEmpty
    /\ result.exit = 0

\* C16: in the per-opcode table of runStats every opcode of the trace has
\* exactly one row, the row's count and bytes are the number and the summed
\* payload lengths of the records with that opcode, and the counts of the
\* rows never increase down the table.
C16_OpcodeTable ==
    (phase = "exited" /\ args.parse = "ok" /\ args.mode = "stats"
        /\ result.statsSummary) =>
        /\ \A i \in 1..Len(result.records) :
              Cardinality(RowsOf(result.records[i].Opcode)) = 1
        /\ \A i \in 1..Len(result.statsRows) :
              LET row == result.statsRows[i]
              IN  /\ RecordsOf(row.opcode) # {}
                  /\ row.count = Cardinality(RecordsOf(row.opcode))
                  /\ row.bytes = SumPayloadLens(RecordsOf(row.opcode))
        /\ \A i, j \in 1..Len(result.statsRows) :
              i < j => result.statsRows[i].count >= result.statsRows[j].count

\* A table of two rows, two records of one opcode above one of another.
C16_Witness ==
    /\ phase = "exited"
    /\ args.parse = "ok"
    /\ args.mode = "stats"
    /\ result.statsSummary
    /\ Len(result.statsRows) = 2
    /\ result.statsRows[1].count = 2
    /\ result.statsRows[2].count = 1

\* C17 as stated: the tool exits 0 only when dump, json or stats has
\* completed without error (and with 1 where the claim says so).
C17_ExitZeroOnlyAfterRun ==
    phase = "exited" =>
        /\ args.capture = "" => result.exit = 1
        /\ result.exit = 0 =>
              (/\ args.capture # ""
               /\ args.mode \in {"dump", "json", "stats"}
               /\ ~OpenOrDecodeFails
               /\ \/ result.dumpTotal >= 0
                  \/ result.jsonDoc
                  \/ result.statsEmpty
                  \/ result.statsSummary)

\* C17, amended: once flag.Parse has accepted the command line, the tool
\* exits with code 1 and a diagnostic on stderr when --capture is missing
\* (whatever the mode), when the mode is unknown, when opening or decoding
\* the capture fails, and in replay mode with or without a target, and it
\* exits 0 exactly when dump, json or stats completes without error; a
\* request for help exits 0 without running a mode, and a command line
\* that flag.Parse rejects exits 2.
C17_ExitCodes ==
    phase = "exited" =>
        /\ result.exit \in {0, 1, 2}
        /\ result.exit # 0 => result.stderr # <<>>
        /\ args.parse = "help" => result.exit = 0 /\ NoOutput
        /\ args.parse = "bad" => result.exit = 2 /\ NoOutput
        /\ args.parse = "ok" =>
              /\ args.capture = "" =>
                    /\ result.exit = 1
                    /\ result.stderr[1] = <<"error: --capture is required">>
              /\ (args.capture # ""
                      /\ args.mode \notin {"dump", "json", "stats", "replay"}) =>
                    result.exit = 1 /\ result.stderr[1][1] = "unknown mode"
              /\ (args.capture # "" /\ args.mode = "replay") => result.exit = 1
              /\ (args.capture # "" /\ args.mode \in {"dump", "json", "stats"}
                      /\ OpenOrDecodeFails) => result.exit = 1
              /\ result.exit = 0 <=>
                    (/\ args.capture # ""
                     /\ args.mode \in {"dump", "json", "stats"}
                     /\ ~OpenOrDecodeFails
                     /\ result.err = <<>>
                     /\ \/ result.dumpTotal >= 0
                        \/ result.jsonDoc
                        \/ result.statsEmpty
                        \/ result.statsSummary)
              /\ result.exit = 0 => result.stderr = <<>>

\* Replay mode was asked for with a target and a readable capture.
C17_Witness ==
    /\ phase = "exited"
    /\ args.parse = "ok"
    /\ args.mode = "replay"
    /\ args.target # ""
    /\ args.capture = CapturePath
    /\ ~OpenOrDecodeFails
    /\ result.exit = 1

\* C18: a header, metadata and records written with NewWriter, WritePacket
\* and Flush are decoded by NewReader and ReadPacket as the same header,
\* the same metadata and the same records in the same order.
C18_RoundTrip ==
    (phase # "new" /\ ~disk.truncated /\ capIn.hdr.Version <= FormatVersion) =>
        LET r == NewReader(disk.bytes)
        IN  /\ r.err = NoErr
            /\ r.Header = capIn.hdr
            /\ r.Meta = capIn.meta
            /\ readAllPackets(r.rest) = [records |-> capIn.recs, err |-> NoErr]
            /\ (phase = "exited" /\ args.parse = "ok" /\ args.capture = CapturePath
                    /\ args.mode \in {"dump", "json", "stats"}) =>
                  /\ result.header = capIn.hdr
                  /\ result.meta = capIn.meta
                  /\ result.records = capIn.recs

\* Three records, both directions, one with an empty payload, under
\* metadata with every field set, written and read back by the json mode.
C18_Witness ==
    /\ phase = "exited"
    /\ args.parse = "ok"
    /\ args.mode = "json"
    /\ ~disk.truncated
    /\ capIn.meta # NoMeta
    /\ Len(capIn.recs) = 3
    /\ capIn.recs[1].Direction # capIn.recs[2].Direction
    /\ capIn.recs[3].Payload = <<>>
    /\ result.records = capIn.recs
    /\ result.header = capIn.hdr

\* C19: a file of K complete records decodes to exactly those K records
\* and io.EOF on read K+1, without an error; a file that ends inside a
\* record gives a decode error on that read, not io.EOF.
C19_CleanEndOrDecodeError ==
    (phase # "new" /\ capIn.hdr.Version <= FormatVersion) =>
        \A k \in 0..Len(capIn.recs) :
            /\ HoldsComplete(k) =>
                  /\ \A n \in 1..k : ReadErrAt(Body, n) = NoErr
                  /\ ReadErrAt(Body, k + 1) = "EOF"
                  /\ readAllPackets(Body) = [records |-> FirstRecords(k), err |-> NoErr]
            /\ HoldsPartial(k) =>
                  /\ \A n \in 1..k : ReadErrAt(Body, n) = NoErr
                  /\ ReadErrAt(Body, k + 1) \notin {NoErr, "EOF"}
                  /\ readAllPackets(Body) =
                        [records |-> FirstRecords(k), err |-> ReadErrAt(Body, k + 1)]
                  /\ (phase = "exited" /\ args.parse = "ok" /\ args.capture = CapturePath
                          /\ args.mode \in {"dump", "json", "stats"}) =>
                        result.exit = 1 /\ result.err = <<ReadErrAt(Body, k + 1)>>

\* A file cut just behind the header of its second record, whose payload is
\* not empty: dump fails after one complete record.
C19_Witness ==
    /\ phase = "exited"
    /\ args.parse = "ok"
    /\ args.mode = "dump"
    /\ args.capture = CapturePath
    /\ disk.truncated
    /\ HoldsPartial(1)
    /\ Len(Body) = Len(EncodeRecords(FirstRecords(1))) + RecHeaderLen
    /\ result.exit = 1

\* C20: opening a trace whose header version is above the highest
\* supported one fails with a format error, not an I/O error, and gives no
\* reader and no records.
C20_UnsupportedVersion ==
    (/\ phase = "exited"
     /\ args.parse = "ok"
     /\ args.capture = CapturePath
     /\ args.mode \in {"dump", "json", "stats"}
     /\ Len(disk.bytes) >= FileHeaderLen
     /\ FromBE(SubSeq(disk.bytes, 1, 2)) > FormatVersion) =>
        /\ Len(result.err) = 2
        /\ result.err[1] = "read capture"
        /\ result.err[2] \in FormatErrors
        /\ result.err[2] \notin IOErrors
        /\ result.readerNil
        /\ result.records = <<>>
        /\ NoOutput
        /\ result.exit = 1

\* Stats was run on a capture of two records whose header says version 2.
C20_Witness ==
    /\ phase = "exited"
    /\ args.parse = "ok"
    /\ args.mode = "stats"
    /\ args.capture = CapturePath
    /\ capIn.hdr.Version = FormatVersion + 1
    /\ Len(capIn.recs) = 2
    /\ ~disk.truncated
    /\ result.err = <<"read capture", "ErrUnsupportedVersion">>

\* The record a reader positioned at bytes returns on its k-th ReadPacket.
RECURSIVE ReadRecAt(_, _)
ReadRecAt(bytes, k) ==
    LET r == ReaderReadPacket(bytes)
    IN  IF k <= 1 \/ r.err # NoErr THEN r.rec ELSE ReadRecAt(r.rest, k - 1)

\* The number of ReadPacket calls on the capture on disk that return a record.
DecodedCount ==
    LET rest == NewReader(disk.bytes).rest
    IN  Cardinality({k \in 1..(MaxTraceLen + 1) : ReadErrAt(rest, k) = NoErr})

\* The k-th record of the capture on disk, in file order.
Decoded(k) == ReadRecAt(NewReader(disk.bytes).rest, k)

\* A mode that reads the capture was run on the capture that exists.
RanOnCapture ==
    /\ phase = "exited"
    /\ args.parse = "ok"
    /\ args.capture = CapturePath
    /\ args.mode \in {"dump", "json", "stats"}

\* C21: runJSON emits one packets entry per decoded record, in file order;
\* entry i (from 0) has index i, elapsed_ns = the record's timestamp minus
\* the header's session start, the record's opcode and the length of its
\* payload.
C21_JSONPackets ==
    (RanOnCapture /\ args.mode = "json" /\ ~OpenOrDecodeFails) =>
        /\ result.jsonDoc
        /\ Len(result.jsonPackets) = DecodedCount
        /\ \A i \in 0..(DecodedCount - 1) :
              LET e == result.jsonPackets[i + 1]
                  rec == Decoded(i + 1)
              IN  /\ e.index = i
                  /\ e.elapsed_ns = rec.TimestampNs
                                       - NewReader(disk.bytes).Header.SessionStartNs
                  /\ e.opcode = rec.Opcode
                  /\ e.payload_len = Len(rec.Payload)
                  /\ e.timestamp = rec.TimestampNs
                  /\ e.direction = DirectionString(rec.Direction)

\* A document of three entries whose second record is later than the
\* first and has another opcode and another payload length.
C21_Witness ==
    /\ RanOnCapture
    /\ args.mode = "json"
    /\ result.jsonDoc
    /\ Len(result.jsonPackets) = 3
    /\ result.jsonPackets[2].elapsed_ns > result.jsonPackets[1].elapsed_ns
    /\ result.jsonPackets[2].opcode # result.jsonPackets[1].opcode
    /\ result.jsonPackets[2].payload_len # result.jsonPackets[1].payload_len

\* C22: readAllPackets gives every record in file order and a nil error
\* when the reader ends with io.EOF, and the first other error otherwise;
\* on such an error runDump, runJSON and runStats return it and have
\* emitted no record line, no JSON document and no statistics, dump having
\* emitted its header lines only.
C22_ReadAllOrFirstError ==
    (phase # "new" /\ NewReader(disk.bytes).err = NoErr) =>
        LET rest == NewReader(disk.bytes).rest
            all == readAllPackets(rest)
            n == DecodedCount
            stop == ReadErrAt(rest, n + 1)
        IN  /\ all.records = [k \in 1..n |-> Decoded(k)]
            /\ all.err = IF stop = "EOF" THEN NoErr ELSE stop
            /\ (RanOnCapture /\ stop # "EOF") =>
                  /\ result.err = <<stop>>
                  /\ result.exit = 1
                  /\ result.dumpLines = <<>>
                  /\ result.dumpTotal = -1
                  /\ ~result.jsonDoc /\ result.jsonPackets = <<>>
                  /\ ~result.statsEmpty /\ ~result.statsSummary
                  /\ result.statsRows = <<>>
                  /\ result.dumpHeader <=> args.mode = "dump"
            /\ (RanOnCapture /\ stop = "EOF") => result.err = <<>>

\* Dump on a capture cut inside its third record: the header lines are
\* out, no record line is.
C22_Witness ==
    /\ RanOnCapture
    /\ args.mode = "dump"
    /\ disk.truncated
    /\ NewReader(disk.bytes).err = NoErr
    /\ DecodedCount = 2
    /\ result.err = <<"ErrUnexpectedEOF">>
    /\ result.dumpHeader
    /\ result.dumpLines = <<>>

\* The kinds of difference at position i (0-based) of the server-to-client
\* records of the two inputs of Compare.
IsMissingResponse(i) ==
    /\ i < Len(WithoutClientToServer(expected))
    /\ i >= Len(WithoutClientToServer(actual))

IsUnexpectedExtra(i) ==
    /\ i >= Len(WithoutClientToServer(expected))
    /\ i < Len(WithoutClientToServer(actual))

IsOpcodeMismatch(i) ==
    /\ i < Len(WithoutClientToServer(expected))
    /\ i < Len(WithoutClientToServer(actual))
    /\ WithoutClientToServer(expected)[i + 1].Opcode
          # WithoutClientToServer(actual)[i + 1].Opcode

IsSizeDelta(i) ==
    /\ i < Len(WithoutClientToServer(expected))
    /\ i < Len(WithoutClientToServer(actual))
    /\ WithoutClientToServer(expected)[i + 1].Opcode
          = WithoutClientToServer(actual)[i + 1].Opcode
    /\ Len(WithoutClientToServer(expected)[i + 1].Payload)
          # Len(WithoutClientToServer(actual)[i + 1].Payload)

\* How many of the four kinds hold at position i.
KindCount(i) ==
    Cardinality({k \in {"missing", "extra", "mismatch", "size"} :
        \/ k = "missing" /\ IsMissingResponse(i)
        \/ k = "extra" /\ IsUnexpectedExtra(i)
        \/ k = "mismatch" /\ IsOpcodeMismatch(i)
        \/ k = "size" /\ IsSizeDelta(i)})

\* C23: every diff ComparePackets returns is of exactly one of the four
\* kinds, and its fields tell which: Actual is nil exactly for a missing
\* response; OpcodeMismatch is true exactly for an opcode mismatch, and
\* SizeDelta is then 0; with Actual not nil and OpcodeMismatch false,
\* SizeDelta differs from 0 exactly for a size delta and is 0 exactly for
\* an unexpected extra.
C23_KindsFromFields ==
    cmpDone =>
        \A n \in 1..Len(diffs) :
            LET d == diffs[n]
            IN  /\ KindCount(d.Index) = 1
                /\ d.Actual = <<>> <=> IsMissingResponse(d.Index)
                /\ d.OpcodeMismatch <=> IsOpcodeMismatch(d.Index)
                /\ d.OpcodeMismatch => d.SizeDelta = 0
                /\ (d.Actual # <<>> /\ ~d.OpcodeMismatch) =>
                      /\ d.SizeDelta # 0 <=> IsSizeDelta(d.Index)
                      /\ d.SizeDelta = 0 <=> IsUnexpectedExtra(d.Index)

\* A size delta at position 0 followed by an unexpected extra at position 1.
C23_Witness ==
    /\ cmpDone
    /\ Len(diffs) = 2
    /\ IsSizeDelta(0) /\ diffs[1].SizeDelta # 0 /\ ~diffs[1].OpcodeMismatch
    /\ IsUnexpectedExtra(1) /\ diffs[2].SizeDelta = 0 /\ diffs[2].Actual # <<>>

\* The larger and the smaller of two numbers.
Larger(a, b) == IF a >= b THEN a ELSE b

Smaller(a, b) == IF a <= b THEN a ELSE b

\* C24: ComparePackets(t, t) is empty for every sequence t, and the number
\* of diffs is at most the larger of the two server-to-client record
\* counts and at least the difference between them.
C24_SelfCompareAndBounds ==
    cmpDone =>
        LET ne == Len(WithoutClientToServer(expected))
            na == Len(WithoutClientToServer(actual))
        IN  /\ expected = actual => diffs = <<>>
            /\ ComparePackets(expected, expected) = <<>>
            /\ ComparePackets(actual, actual) = <<>>
            /\ Len(diffs) <= Larger(ne, na)
            /\ Len(diffs) >= Larger(ne, na) - Smaller(ne, na)

\* A sequence of two server-to-client records was compared with itself.
C24_Witness ==
    /\ cmpDone
    /\ expected = actual
    /\ Len(WithoutClientToServer(expected)) = 2
    /\ diffs = <<>>

RECURSIVE SumRows(_, _)
SumRows(rows, field) ==
    IF rows = <<>> THEN 0 ELSE Head(rows)[field] + SumRows(Tail(rows), field)

---------------------------------------------------------------------------
(* The trace of the recording tap under runStats, and the per-direction   *)
(* order of its records. *)

\* The capture file of a finished recording: the header and metadata
\* NewWriter wrote, then the flushed records.
TapCapture ==
    [exists |-> TRUE,
     bytes |-> EncodeFileHeader([Version |-> FormatVersion, ServerType |-> ServerTypeChannel,
                                 ClientMode |-> 40, SessionStartNs |-> 1000])
                  \o EncodeMeta(NoMeta) \o file,
     truncated |-> FALSE]

\* What runStats reports for that file.
TapStats ==
    runStats(TapCapture, CapturePath,
             CHOOSE srt \in SortOutcomes(RowsToSort(TapCapture, CapturePath)) : TRUE)

\* Both goroutines are done, the writer is flushed and no write failed.
Recorded == Finished /\ buf = <<>> /\ wfails = 0

\* C25 as stated: for a non-empty trace recorded by concurrent receive and
\* send goroutines, the duration runStats reports (timestamp of the last
\* record of the file minus that of the first) is not negative.
C25_DurationNonNegative ==
    (Recorded /\ readAllPackets(file).records # <<>>) =>
        /\ TapStats.statsSummary
        /\ TapStats.duration >= 0

\* C25, what the code computes: the duration runStats reports is the
\* difference of the clock readings
\* of the last and the first goroutine to take the mutex, whatever their
\* order in time: it lies between minus and plus the time the recording
\* took.
C25_DurationIsLastMinusFirstAppended ==
    (Recorded /\ lockOrder # <<>>) =>
        /\ TapStats.statsSummary
        /\ TapStats.duration
              = lockOrder[Len(lockOrder)].TimestampNs - lockOrder[1].TimestampNs
        /\ TapStats.duration > -now
        /\ TapStats.duration < now

\* A finished recording for which runStats reports a negative duration.
C25_Witness ==
    /\ Recorded
    /\ readAllPackets(file).records # <<>>
    /\ TapStats.statsSummary
    /\ TapStats.duration < 0

\* The payloads of the records of p's direction decoded from the stream.
InStream(p) ==
    LET own == SelectSeq(readAllPackets(file \o buf).records,
                         LAMBDA r : r.Direction = DirOf(p))
    IN  [i \in 1..Len(own) |-> own[i].Payload]

\* C27: with one goroutine receiving and one sending, the records of each
\* direction are in the trace in the order in which the packets of that
\* direction were received from, or sent on, the inner connection, under
\* every interleaving.
C27_PerDirectionOrder ==
    \A p \in Procs :
        /\ IsPrefix(Appended(p), Forwarded(p))
        /\ wfails = 0 =>
              /\ IsPrefix(InStream(p), Forwarded(p))
              /\ (Finished /\ buf = <<>>) => InStream(p) = Forwarded(p)
        /\ \A i, j \in 1..Len(calls) :
              (i < j /\ calls[i].Direction = DirOf(p) /\ calls[j].Direction = DirOf(p)) =>
                  calls[i].TimestampNs < calls[j].TimestampNs

\* Two different packets of each direction, the sends interleaved with the
\* receives, all in the flushed trace in the order of their direction.
C27_Witness ==
    /\ Recorded
    /\ \A p \in Procs :
          /\ Len(Forwarded(p)) = 2
          /\ Forwarded(p)[1] # Forwarded(p)[2]
          /\ InStream(p) = Forwarded(p)
    /\ calls[1].Direction # calls[2].Direction
    /\ calls[2].Direction # calls[3].Direction

---------------------------------------------------------------------------
(* The setup wizard. *)

\* The requests that have executed close(ws.done).
Closers == {r \in Requests : finish[r].closed}

\* C28 as stated: close(ws.done) is executed at most once over all
\* handleFinish requests, only by a request whose body decoded and whose
\* config was written, and a request that failed leaves done open.
C28_DoneClosedAtMostOnce ==
    /\ Cardinality(Closers) <= 1
    /\ \A r \in Requests : finish[r].pc # "panicked"
    /\ \A r \in Closers : finish[r].decoded /\ finish[r].wrote
    /\ \A r \in Requests : finish[r].status \in {400, 500} => ~finish[r].closed

\* C28, what the code does: close(ws.done) is executed by every request
\* whose body decoded and whose writeConfig succeeded, after its 200
\* response, and by no other; the first of them closes done, each later one
\* panics on the closed channel; requests that failed do not touch done.
C28_EverySuccessfulRequestCloses ==
    /\ \A r \in Closers :
          finish[r].decoded /\ finish[r].wrote /\ finish[r].status = 200
    /\ \A r \in Requests :
          /\ finish[r].status \in {400, 500} =>
                ~finish[r].closed /\ finish[r].pc = "returned"
          /\ (finish[r].status = 200 /\ finish[r].pc \in {"returned", "panicked"}) =>
                finish[r].closed
          /\ finish[r].pc = "panicked" =>
                \E q \in Closers \ {r} : finish[q].pc = "returned"
    /\ done = "closed" <=> Closers # {}
    /\ Cardinality({r \in Closers : finish[r].pc = "returned"}) <= 1
    /\ Cardinality({r \in Requests : finish[r].pc = "panicked"})
          = IF Closers = {} THEN 0 ELSE Cardinality(Closers) - 1

\* Two requests were served concurrently and both succeeded: one closed
\* done, the other panicked on it; a third failed to decode.
C28_Witness ==
    /\ finish[1].pc = "returned" /\ finish[1].closed
    /\ finish[2].pc = "panicked" /\ finish[2].status = 200
    /\ finish[3].status = 400
    /\ done = "closed"

\* The steps the request asks for, in the order of the handler.
RequestedSteps == SelectSeq(InitDBSteps, LAMBDA s : Requested(initdb.req, s))

\* The .sql files of the directory listing of the last applySQLFiles.
SQLNames ==
    {initdb.last.listing[i].name : i \in
        {k \in 1..Len(initdb.last.listing) :
            initdb.last.listing[k].sql /\ ~initdb.last.listing[k].isDir}}

\* C29: handleInitDB runs the requested steps in the order create
\* database, init schema, update, patch, bundled schemas; at the first
\* failing step it runs no later step and answers success=false; it answers
\* success=true exactly when every requested step succeeded; applySQLFiles
\* executes the .sql files of a directory in sorted name order, stops at
\* the first failing file and returns exactly the files executed before it.
C29_StepsInOrder ==
    /\ IsPrefix(initdb.ran, RequestedSteps)
    /\ initdb.failed # <<>> =>
          /\ initdb.failed = <<initdb.ran[Len(initdb.ran)]>>
          /\ initdb.pc = "returned"
          /\ initdb.status = 200
          /\ initdb.success = "false"
    /\ initdb.success = "true" <=>
          (/\ initdb.pc = "returned"
           /\ initdb.status = 200
           /\ initdb.ran = RequestedSteps
           /\ initdb.failed = <<>>)
    /\ (initdb.pc = "returned" /\ initdb.status = 200) => initdb.success \in {"true", "false"}
    /\ initdb.pc # "returned" => initdb.success = "none" /\ initdb.status = 0
    /\ initdb.last.dir # "" =>
          LET l == initdb.last
          IN  /\ \A i \in 1..Len(l.executed) :
                    /\ l.executed[i] \in SQLNames
                    /\ Cardinality({n \in SQLNames : n < l.executed[i]}) = i - 1
              /\ IsPrefix(l.applied, l.executed)
              /\ ~l.err => l.applied = l.executed /\ Len(l.executed) = Cardinality(SQLNames)
              /\ (l.err /\ l.fail = "exec") =>
                    /\ l.executed # <<>>
                    /\ l.applied = SubSeq(l.executed, 1, Len(l.executed) - 1)
              /\ (l.err /\ l.fail \in {"read", "readdir"}) => l.applied = l.executed
              /\ l.err <=> initdb.failed = <<l.dir>>

\* All five steps were asked for; the patch directory listed its second
\* file first, and that second file failed when executed: the first is
\* returned as applied, the bundled schemas are not run, success=false.
C29_Witness ==
    /\ initdb.pc = "returned"
    /\ RequestedSteps = InitDBSteps
    /\ initdb.ran = <<"create", "init", "update", "patch">>
    /\ initdb.failed = <<"patch">>
    /\ initdb.last.dir = "patch"
    /\ initdb.last.executed = <<1, 2>>
    /\ initdb.last.listing[1].name = 2
    /\ initdb.last.applied = <<1>>
    /\ initdb.success = "false"

=============================================================================
